---------------------------- MODULE Spec2Model ----------------------------
(***************************************************************************)
(* The RFIDisk daemon (src/rfidisk.py, class RFIDLauncher) as a state      *)
(* machine.  One action per step of the main loop of run(): the serial     *)
(* read, the dispatch of the line read, and the periodic checks; plus the  *)
(* environment: an owned process exiting on its own and the `--load`       *)
(* command line invocation.                                                *)
(*                                                                         *)
(* The daemon is single threaded and its handlers call each other          *)
(* (send_display_command -> reconnect_serial -> connect_serial ->          *)
(* recover_after_disconnection -> send_display_command ...).  Each python  *)
(* method is an operator from a world record w to the world after the      *)
(* call; w.ret holds the method's return value.  Strings are TLA+ strings, *)
(* processed character by character as the python string methods do.       *)
(***************************************************************************)
EXTENDS Integers, Sequences, FiniteSets, TLC

----------------------------------------------------------------------------
(* Bounds of the model *)

\* serial I/O operations of one handler whose outcome is chosen (the later
\* ones succeed)
MaxIO == 2
\* handlers of one behaviour that meet a transient serial fault
MaxFaults == 1
\* lines the device sends in one behaviour
MaxLines == 3
\* processes the daemon launches in one behaviour
MaxProcs == 2
\* `--load` invocations in one behaviour
MaxLoads == 1
\* how far above max_serial_errors the error counter is followed
ErrSlack == 1
\* lines the device has sent at most when it is unplugged
MaxLinesBeforeUnplug == 1

(* Program constants *)
max_serial_errors == 5
ProcessCheckEvery == 20
LoadCheckEvery == 10
Line12Width == 20
Line34Width == 14

VERSION == "0.95"
None == "None"          \* python None where a string is expected
NoProcess == 0          \* python None where a Popen handle is expected

----------------------------------------------------------------------------
(* Python string methods *)

UpperToLower ==
    ("A" :> "a") @@ ("B" :> "b") @@ ("C" :> "c") @@ ("D" :> "d") @@
    ("E" :> "e") @@ ("F" :> "f") @@ ("G" :> "g") @@ ("H" :> "h") @@
    ("I" :> "i") @@ ("J" :> "j") @@ ("K" :> "k") @@ ("L" :> "l") @@
    ("M" :> "m") @@ ("N" :> "n") @@ ("O" :> "o") @@ ("P" :> "p") @@
    ("Q" :> "q") @@ ("R" :> "r") @@ ("S" :> "s") @@ ("T" :> "t") @@
    ("U" :> "u") @@ ("V" :> "v") @@ ("W" :> "w") @@ ("X" :> "x") @@
    ("Y" :> "y") @@ ("Z" :> "z")

RECURSIVE Lower(_)
Lower(s) ==
    IF s = "" THEN ""
    ELSE (IF Head(s) \in DOMAIN UpperToLower THEN UpperToLower[Head(s)]
          ELSE Head(s)) \o Lower(Tail(s))

IsSpace(c) == c \in {" ", "\t", "\n", "\r"}

RECURSIVE LStrip(_)
LStrip(s) ==
    IF s # "" /\ IsSpace(Head(s)) THEN LStrip(Tail(s)) ELSE s

RECURSIVE RStrip(_)
RStrip(s) ==
    IF s # "" /\ IsSpace(SubSeq(s, Len(s), Len(s)))
    THEN RStrip(SubSeq(s, 1, Len(s) - 1)) ELSE s

Strip(s) == RStrip(LStrip(s))

StartsWith(s, p) == Len(s) >= Len(p) /\ SubSeq(s, 1, Len(p)) = p

\* s[:n]
Prefix(s, n) == IF Len(s) <= n THEN s ELSE SubSeq(s, 1, n)

\* s[n:]
From(s, n) == IF Len(s) <= n THEN "" ELSE SubSeq(s, n + 1, Len(s))

\* s.replace('|', '_')
RECURSIVE ReplacePipes(_)
ReplacePipes(s) ==
    IF s = "" THEN ""
    ELSE (IF Head(s) = "|" THEN "_" ELSE Head(s)) \o ReplacePipes(Tail(s))

\* s.split('\n'): acc is the piece being read
RECURSIVE SplitAcc(_, _)
SplitAcc(s, acc) ==
    IF s = "" THEN <<acc>>
    ELSE IF Head(s) = "\n" THEN <<acc>> \o SplitAcc(Tail(s), "")
    ELSE SplitAcc(Tail(s), acc \o Head(s))

SplitLines(s) == SplitAcc(s, "")

----------------------------------------------------------------------------
(* The tag registry (rfidisk_tags.json) and the settings (rfidisk_config.json) *)

Entry(id, command, l1, l2, l3, l4, terminate) ==
    [id |-> id, command |-> command, line1 |-> l1, line2 |-> l2,
     line3 |-> l3, line4 |-> l4, terminate |-> terminate]

default_tags ==
    << Entry("example", "", "Example Tag", "Configure me",
             "Edit rfidisk_tags.json", "example", "") >>

\* a game launched through steam, closed by signal
EntryGame == Entry("a1b2", "steam://run/100", "Game", "", "", "", "")
\* an application with a terminate command of its own
EntryTerm == Entry("c3d4", "xterm", "Terminal", "Shell", "", "c3d4", "pkill xterm")
\* a placeholder of an earlier unknown tag that the user gave a command in the
\* tag manager (save_current_tag writes whatever the form holds)
EntryEdited == Entry("old9", "xterm", "new entry", "configure me",
                     "edit rfidisk_tags.json", "old9", "")

\* the registry files the daemon is started with
InitRegistries == { <<EntryGame, EntryTerm>>, <<EntryGame, EntryEdited>> }

\* the lines the device sends: insertions and removals of three tags, and the
\* two prefixes alone, which is what a line cut short after the prefix reads as
DeviceLines ==
    {"ON:a1b2", "OF:a1b2", "ON:c3d4", "OF:c3d4", "ON:ZZ9", "OF:zz9", "ON:", "OF:"}

\* the settings the daemon is started with
InitSettings ==
    { [removal_delay |-> rd, desktop_notifications |-> TRUE,
       auto_launch_manager |-> TRUE, disable_autolaunch |-> da]
        : rd \in {0, 2}, da \in BOOLEAN }

HasTag(tags, id) == \E i \in DOMAIN tags : tags[i].id = id

\* self.tags.get(id, {}) with every absent field read as ""
GetTag(tags, id) ==
    IF HasTag(tags, id)
    THEN tags[CHOOSE i \in DOMAIN tags : tags[i].id = id]
    ELSE Entry(id, "", "", "", "", "", "")

\* del tags[id]
DelTag(tags, id) == SelectSeq(tags, LAMBDA e : e.id # id)

\* tags[id] = entry: in place when the key exists, appended otherwise
SetTag(tags, id, entry) ==
    LET e == [entry EXCEPT !.id = id]
    IN  IF HasTag(tags, id)
        THEN [i \in DOMAIN tags |-> IF tags[i].id = id THEN e ELSE tags[i]]
        ELSE Append(tags, e)

ValidFile(tags) == [state |-> "valid", tags |-> tags]
ShmFile(content) == [exists |-> TRUE, content |-> content]
NoFile == [exists |-> FALSE, content |-> ""]

IdleLines == <<"Ready", "Insert Disk", "", "RFIDisk v" \o VERSION>>

\* The texts the daemon meets in this model.  The string methods are
\* tabulated over them once; a text that is not in the table is computed.
EntryTexts(e) ==
    {e.id, e.command, e.line1, e.line2, e.line3, e.line4, e.terminate}
Texts ==
    UNION { UNION { EntryTexts(r[i]) : i \in DOMAIN r } :
                r \in InitRegistries \cup {default_tags} }
    \cup DeviceLines
    \cup { From(l, 3) : l \in DeviceLines }
    \cup { Lower(From(l, 3)) : l \in DeviceLines }
    \cup { e.command \o "\nTRIGGER" : e \in {EntryGame, EntryTerm, EntryEdited} }
    \cup { IdleLines[i] : i \in 1..4 }
    \cup { "State Error", "Tag config missing", "Check rfidisk_tags.json",
           "Please configure", "Tag (executable", "not found)",
           "Config Error", "Manager not found", "Edit manually:",
           "new tag detected", "launching config", "please wait...",
           "new entry", "configure me", "edit rfidisk_tags.json", "" }
LowerTable == [s \in Texts |-> Lower(s)]
StripTable == [s \in Texts |-> Strip(s)]
FieldTable ==
    [s \in Texts |-> [n \in {Line12Width, Line34Width} |->
                         ReplacePipes(Prefix(s, n))]]

\* s.lower()
lower(s) == IF s \in DOMAIN LowerTable THEN LowerTable[s] ELSE Lower(s)
\* s.strip()
strip(s) == IF s \in DOMAIN StripTable THEN StripTable[s] ELSE Strip(s)
\* s[:n].replace('|', '_')
Field(s, n) ==
    IF s \in DOMAIN FieldTable /\ n \in DOMAIN FieldTable[s]
    THEN FieldTable[s][n] ELSE ReplacePipes(Prefix(s, n))

----------------------------------------------------------------------------
VARIABLES
    \* fields of RFIDLauncher
    active_tag, active_process, app_was_launched_by_us, reconnecting,
    recovery_mode, serial_error_count, last_display_state,
    pending_load_command, tags, config, serial_conn, running,
    \* locals of run()
    pc, data,
    \* files
    tagsFile, sharedFile, loadFile,
    \* the processes launched, pid -> [st, cmd]: st is "running", "exited"
    \* (ended, not yet reaped by a poll) or "reaped", cmd the command it runs;
    \* and the lines waiting in the serial port's input buffer
    procs, rx,
    \* the `--load` invocation in progress: what it read from the load file
    cli,
    \* the device: "present", or "gone" (unplugged: every serial I/O fails)
    port,
    \* what the behaviour has used of its bounds: lines sent, handlers that
    \* met a transient fault, `--load` invocations
    used,
    \* the step just taken: its name, its input and what it did, in order
    last

daemonVars ==
    <<active_tag, active_process, app_was_launched_by_us, reconnecting,
      recovery_mode, serial_error_count, last_display_state,
      pending_load_command, tags, config, serial_conn, running>>
loopVars == <<pc, data>>
fileVars == <<tagsFile, sharedFile, loadFile>>
envVars == <<port, used>>
vars == <<daemonVars, loopVars, fileVars, procs, rx, cli, port, used, last>>

\* what a step did: launch, notify, publish, wire, sigterm, ...
Fx(k, pid, s, t) == [k |-> k, pid |-> pid, s |-> s, t |-> t]
Emit(w, e) == [w EXCEPT !.fx = Append(@, e)]

\* The inputs of a handler: io, the outcomes of its serial I/O operations in
\* order; launchOk, whether Popen of the launch command succeeds; termOk,
\* whether Popen of the terminate command succeeds; dies, whether the process
\* is gone when the wait after the terminate command or SIGTERM ends; mgrOk,
\* whether the tag manager script is there and starts; during, the lines that
\* reach the port while the handler sleeps the removal delay.
Inputs(io, launchOk, termOk, dies, mgrOk, during) ==
    [io |-> io, launchOk |-> launchOk, termOk |-> termOk, dies |-> dies,
     mgrOk |-> mgrOk, during |-> during]

IOs == UNION {[1..n -> BOOLEAN] : n \in 0..MaxIO}
\* the trailing operations succeed anyway
IOChoices == {io \in IOs : io = <<>> \/ ~io[Len(io)]}

\* the world a handler starts in
World(inp) ==
    [active_tag |-> active_tag, active_process |-> active_process,
     app_was_launched_by_us |-> app_was_launched_by_us,
     reconnecting |-> reconnecting, recovery_mode |-> recovery_mode,
     serial_error_count |-> serial_error_count,
     last_display_state |-> last_display_state,
     pending_load_command |-> pending_load_command,
     tags |-> tags, config |-> config, serial_conn |-> serial_conn,
     running |-> running,
     tagsFile |-> tagsFile, sharedFile |-> sharedFile, loadFile |-> loadFile,
     procs |-> procs, rx |-> rx, port |-> port,
     io |-> inp.io, inp |-> inp, ret |-> FALSE, cmd |-> None, fx |-> <<>>]

\* the world a handler ends in becomes the next state
Commit(w, op, arg) ==
    /\ w.serial_error_count <= max_serial_errors + ErrSlack
    /\ Len(w.procs) <= MaxProcs
    /\ w.io = <<>>            \* the faults chosen are the faults met
    /\ w.inp.io # <<>> => port = "present" /\ used.faults < MaxFaults
    /\ used.lines + Len(w.inp.during) <= MaxLines
    /\ used' = [used EXCEPT
                   !.faults = @ + (IF w.inp.io # <<>> THEN 1 ELSE 0),
                   !.lines = @ + Len(w.inp.during)
                               + (IF op = "read" /\ arg # "" THEN 1 ELSE 0)]
    /\ port' = port
    /\ active_tag' = w.active_tag
    /\ active_process' = w.active_process
    /\ app_was_launched_by_us' = w.app_was_launched_by_us
    /\ reconnecting' = w.reconnecting
    /\ recovery_mode' = w.recovery_mode
    /\ serial_error_count' = w.serial_error_count
    /\ last_display_state' = w.last_display_state
    /\ pending_load_command' = w.pending_load_command
    /\ tags' = w.tags
    /\ config' = w.config
    /\ serial_conn' = w.serial_conn
    /\ running' = w.running
    /\ tagsFile' = w.tagsFile
    /\ sharedFile' = w.sharedFile
    /\ loadFile' = w.loadFile
    /\ procs' = w.procs
    /\ rx' = w.rx
    /\ last' = [op |-> op, arg |-> arg, fx |-> w.fx]

\* the outcome of the next serial I/O operation (TRUE: it succeeds)
NextIO(w) == w.port = "present" /\ (w.io = <<>> \/ Head(w.io))
UseIO(w) == [w EXCEPT !.io = IF @ = <<>> THEN <<>> ELSE Tail(@)]

----------------------------------------------------------------------------
(* Files *)

load_config(w) ==
    CASE w.tagsFile.state = "valid" -> [w EXCEPT !.tags = w.tagsFile.tags]
      [] w.tagsFile.state = "corrupt" -> [w EXCEPT !.tags = default_tags]
      [] OTHER -> [w EXCEPT !.tags = default_tags,
                            !.tagsFile = ValidFile(default_tags)]

save_tags(w) == [w EXCEPT !.tagsFile = ValidFile(w.tags)]

create_shared_files(w) ==
    [w EXCEPT !.sharedFile = ShmFile("Ready|Insert Disk||RFIDisk v" \o VERSION),
              !.loadFile = ShmFile("")]

update_shared_file(w, line1, line2, line3, line4) ==
    LET content == line1 \o "|" \o line2 \o "|" \o line3 \o "|" \o line4
    IN  Emit([w EXCEPT !.sharedFile = ShmFile(content)],
             Fx("shared", 0, content, ""))

write_load_command(w, command) ==
    [w EXCEPT !.loadFile = ShmFile(command), !.pending_load_command = command]

clear_load_command(w) ==
    [w EXCEPT !.loadFile = ShmFile(""), !.pending_load_command = None]

delete_shared_files(w) ==
    [w EXCEPT !.sharedFile = NoFile, !.loadFile = NoFile]

\* check_load_command that leaves the file as it found it
check_load_command_keeps_trigger(w) ==
    IF ~w.loadFile.exists THEN [w EXCEPT !.cmd = None]
    ELSE LET lines == SplitLines(strip(w.loadFile.content))
         IN  IF Len(lines) >= 2 /\ lines[2] = "TRIGGER"
             THEN [w EXCEPT !.cmd = strip(lines[1])]
             ELSE [w EXCEPT !.cmd = None]

\* cmd: the command whose trigger was found, or None
check_load_command(w) ==
    IF ~w.loadFile.exists THEN [w EXCEPT !.cmd = None]
    ELSE LET lines == SplitLines(strip(w.loadFile.content))
         IN  IF Len(lines) >= 2 /\ lines[2] = "TRIGGER"
             THEN LET command == strip(lines[1])
                  IN  [w EXCEPT !.loadFile = ShmFile(command), !.cmd = command]
             ELSE [w EXCEPT !.cmd = None]

\* the tags after create_or_update_new_entry, saved
create_or_update_new_entry(w, tag_id) ==
    LET held == {i \in DOMAIN w.tags : w.tags[i].line1 = "new entry"}
        new_entry_id ==
            IF held = {} THEN None
            ELSE w.tags[CHOOSE i \in held : \A j \in held : i <= j].id
        t == IF new_entry_id # None /\ new_entry_id # ""
             THEN IF new_entry_id # tag_id
                  THEN DelTag(SetTag(w.tags, tag_id,
                                     GetTag(w.tags, new_entry_id)),
                              new_entry_id)
                  ELSE w.tags
             ELSE SetTag(w.tags, tag_id,
                         Entry(tag_id, "", "new entry", "configure me",
                               "edit rfidisk_tags.json", tag_id, ""))
    IN  save_tags([w EXCEPT !.tags = t])

----------------------------------------------------------------------------
(* Display publisher, serial link manager, recovery controller *)

Truthy(s) == s # None /\ s # ""

\* get_icon_type without its steam case: every command gets the floppy icon
get_icon_type_nosteam(command) ==
    IF strip(command) # "" THEN "1" ELSE "0"

\* get_icon_type that takes a command of blanks for a command
get_icon_type_nostrip(command) ==
    IF StartsWith(lower(command), "steam") THEN "2"
    ELSE IF command # "" THEN "1"
    ELSE "0"

get_icon_type(command) ==
    IF StartsWith(lower(command), "steam") THEN "2"
    ELSE IF strip(command) # "" THEN "1"
    ELSE "0"

\* the wire line made of the lines as they are, neither cut nor escaped
WireLine_raw(line1, line2, line3, line4, icon_type) ==
    "D|" \o line1 \o "|" \o line2 \o "|" \o line3 \o "|" \o line4
         \o "|" \o icon_type

\* the line send_display_command puts on the wire
WireLine(line1, line2, line3, line4, icon_type) ==
    "D|" \o Field(line1, Line12Width) \o "|" \o Field(line2, Line12Width)
         \o "|" \o Field(line3, Line34Width) \o "|" \o Field(line4, Line34Width)
         \o "|" \o icon_type

\* the state a notification is delivered in, kept with the notification
Suppressing(w) ==
    IF w.recovery_mode \/ w.reconnecting THEN "suppressing" ELSE ""

\* send_desktop_notification without the test of line 437
send_desktop_notification_unguarded(w, title) ==
    IF ~w.config.desktop_notifications THEN w
    ELSE Emit(w, Fx("notify", 0, title, Suppressing(w)))

send_desktop_notification(w, title) ==
    IF w.recovery_mode \/ w.reconnecting THEN w
    ELSE IF ~w.config.desktop_notifications THEN w
    ELSE Emit(w, Fx("notify", 0, title, Suppressing(w)))

RECURSIVE send_display_command(_, _, _, _, _, _)
RECURSIVE reconnect_serial(_)
RECURSIVE connect_serial(_)
RECURSIVE recover_after_disconnection(_)

\* ret: TRUE when the line was written
send_display_command(w, line1, line2, line3, line4, icon_type) ==
    LET \* self.serial_conn.write(command.encode()), w2 the world at the try
        Write(w2, command) ==
            IF ~w2.ret THEN w2
            ELSE IF NextIO(w2)
            THEN [Emit(UseIO(w2), Fx("wire", 0, command, ""))
                    EXCEPT !.ret = TRUE]
            ELSE [reconnect_serial(UseIO(w2)) EXCEPT !.ret = FALSE]
        \* w1 the world once the state and the shared file are updated
        Send(w1, command) ==
            Write(IF w1.serial_conn # "open"
                  THEN reconnect_serial(
                           Emit(w1, Fx("publish", 0, command, icon_type)))
                  ELSE [Emit(w1, Fx("publish", 0, command, icon_type))
                          EXCEPT !.ret = TRUE],
                  command)
    IN  Send(update_shared_file(
                 [w EXCEPT !.last_display_state =
                               <<line1, line2, line3, line4>>],
                 line1, line2, line3, line4),
             WireLine(line1, line2, line3, line4, icon_type))

\* reconnect_serial without the count of line 375: the test of line 378
\* never stops it
reconnect_serial_uncounted(w) ==
    LET w1 == [w EXCEPT !.reconnecting = TRUE]
    IN  connect_serial(
            IF w1.serial_conn = "open"
            THEN [w1 EXCEPT !.serial_conn = None, !.rx = <<>>]
            ELSE w1)

\* ret: TRUE when the port is open again
reconnect_serial(w) ==
    LET w1 == [w EXCEPT !.serial_error_count = @ + 1, !.reconnecting = TRUE]
    IN  IF w1.serial_error_count > max_serial_errors
        THEN [Emit(w1, Fx("giveup", 0, "", "")) EXCEPT !.ret = FALSE]
        ELSE connect_serial(
                 IF w1.serial_conn = "open"
                 THEN [w1 EXCEPT !.serial_conn = None, !.rx = <<>>]
                 ELSE w1)

\* connect_serial without the state recovery of lines 292-295 and 304-307
connect_serial_norecovery(w) ==
    IF NextIO(w)
    THEN [create_shared_files(
              [Emit(UseIO(w), Fx("connect", 0, "ok", ""))
                 EXCEPT !.serial_conn = "open", !.rx = <<>>,
                        !.serial_error_count = 0])
            EXCEPT !.reconnecting = FALSE, !.ret = TRUE]
    ELSE [Emit(UseIO(w), Fx("connect", 0, "fail", ""))
            EXCEPT !.serial_conn = None, !.rx = <<>>, !.ret = FALSE]

\* ret: TRUE when the port was opened (with or without the OK token)
connect_serial(w) ==
    IF NextIO(w)
    THEN LET w1 == create_shared_files(
                     [Emit(UseIO(w), Fx("connect", 0, "ok", ""))
                        EXCEPT !.serial_conn = "open", !.rx = <<>>,
                               !.serial_error_count = 0])
             w2 == IF w1.reconnecting
                   THEN [recover_after_disconnection(w1)
                           EXCEPT !.reconnecting = FALSE]
                   ELSE w1
         IN  [w2 EXCEPT !.ret = TRUE]
    ELSE [Emit(UseIO(w), Fx("connect", 0, "fail", ""))
            EXCEPT !.serial_conn = None, !.rx = <<>>, !.ret = FALSE]

\* recover_after_disconnection taking its "no active tag" branch whatever the
\* state: the tag is forgotten and the idle display is restored
recover_to_idle(w) ==
    LET w1 == Emit([w EXCEPT !.recovery_mode = TRUE], Fx("recover", 0, "", ""))
    IN  Emit([send_display_command(
                  [w1 EXCEPT !.active_tag = None,
                             !.app_was_launched_by_us = FALSE],
                  IdleLines[1], IdleLines[2], IdleLines[3], IdleLines[4],
                  "0")
                EXCEPT !.recovery_mode = FALSE],
             Fx("recovered", 0, "", ""))

\* recover_after_disconnection whose idle branch leaves active_tag and
\* app_was_launched_by_us as they are
recover_without_clearing(w) ==
    LET w1 == Emit([w EXCEPT !.recovery_mode = TRUE], Fx("recover", 0, "", ""))
        w2 == IF Truthy(w1.active_tag) /\ w1.app_was_launched_by_us
              THEN LET w3 == load_config(w1)
                       tag_id == w3.active_tag
                       tag_config == GetTag(w3.tags, tag_id)
                   IN  IF HasTag(w3.tags, tag_id)
                       THEN send_display_command(w3,
                                tag_config.line1, tag_config.line2,
                                tag_config.line3, tag_config.line4,
                                get_icon_type(tag_config.command))
                       ELSE send_display_command(w3,
                                "State Error", "Tag config missing",
                                "Check rfidisk_tags.json", tag_id, "0")
              ELSE send_display_command(w1,
                       IdleLines[1], IdleLines[2], IdleLines[3],
                       IdleLines[4], "0")
    IN  Emit([w2 EXCEPT !.recovery_mode = FALSE], Fx("recovered", 0, "", ""))

recover_after_disconnection(w) ==
    LET w1 == Emit([w EXCEPT !.recovery_mode = TRUE], Fx("recover", 0, "", ""))
        w2 == IF Truthy(w1.active_tag) /\ w1.app_was_launched_by_us
              THEN LET w3 == load_config(w1)
                       tag_id == w3.active_tag
                       tag_config == GetTag(w3.tags, tag_id)
                   IN  IF HasTag(w3.tags, tag_id)
                       THEN send_display_command(w3,
                                tag_config.line1, tag_config.line2,
                                tag_config.line3, tag_config.line4,
                                get_icon_type(tag_config.command))
                       ELSE send_display_command(w3,
                                "State Error", "Tag config missing",
                                "Check rfidisk_tags.json", tag_id, "0")
              ELSE send_display_command(
                       [w1 EXCEPT !.active_tag = None,
                                  !.app_was_launched_by_us = FALSE],
                       IdleLines[1], IdleLines[2], IdleLines[3],
                       IdleLines[4], "0")
    IN  Emit([w2 EXCEPT !.recovery_mode = FALSE], Fx("recovered", 0, "", ""))

----------------------------------------------------------------------------
(* Process supervisor *)

SetProc(w, pid, st) == [w EXCEPT !.procs[pid].st = st]

\* is_process_running that never finds the process alive
is_process_running_blind(w) == [w EXCEPT !.ret = FALSE]

\* is_process_running that always finds the process alive
is_process_running_alive(w) == [w EXCEPT !.ret = TRUE]

\* Popen.poll(): ret TRUE when the process is still running; an exited
\* process is reaped by the call
is_process_running(w) ==
    IF w.active_process = NoProcess THEN [w EXCEPT !.ret = FALSE]
    ELSE IF w.procs[w.active_process].st = "running"
    THEN [w EXCEPT !.ret = TRUE]
    ELSE [SetProc(w, w.active_process, "reaped") EXCEPT !.ret = FALSE]

launch_application(w, app_command, tag_line1, tag_line2) ==
    IF w.app_was_launched_by_us /\ Truthy(w.active_tag) THEN w
    ELSE LET w1 == send_desktop_notification(w, "RFIDisk Inserted")
             pid == Len(w1.procs) + 1
         IN  IF w1.inp.launchOk
             THEN Emit([w1 EXCEPT !.procs = Append(@, [st |-> "running",
                                                       cmd |-> app_command]),
                                  !.active_process = pid,
                                  !.app_was_launched_by_us = TRUE],
                       Fx("launch", pid, app_command, ""))
             ELSE send_desktop_notification(
                      Emit(w1, Fx("launch_failed", 0, app_command, "")),
                      "Error")

\* what the wait after a terminate command or a signal leaves of the process
Dies(w, pid) ==
    IF w.procs[pid].st = "running" /\ w.inp.dies
    THEN SetProc(w, pid, "exited") ELSE w

\* terminate_standard that sends SIGKILL without looking at the leader
terminate_standard_kills(w) ==
    IF w.active_process = NoProcess THEN w
    ELSE LET pid == w.active_process
             w1 == IF w.procs[pid].st = "reaped"
                   THEN w
                   ELSE LET w2 == Dies(Emit(w, Fx("SIGTERM", pid, "", "")), pid)
                        IN  SetProc(Emit(w2, Fx("SIGKILL", pid, "", "")),
                                    pid, "exited")
         IN  [w1 EXCEPT !.active_process = NoProcess,
                        !.app_was_launched_by_us = FALSE]

terminate_standard(w) ==
    IF w.active_process = NoProcess THEN w
    ELSE LET pid == w.active_process
             w1 == IF w.procs[pid].st = "reaped"
                   THEN w      \* os.getpgid raises ProcessLookupError
                   ELSE LET w2 == Dies(Emit(w, Fx("SIGTERM", pid, "", "")), pid)
                        IN  IF w2.procs[pid].st = "running"
                            THEN SetProc(Emit(w2, Fx("SIGKILL", pid, "", "")),
                                         pid, "exited")
                            ELSE SetProc(w2, pid, "reaped")
         IN  [w1 EXCEPT !.active_process = NoProcess,
                        !.app_was_launched_by_us = FALSE]

\* terminate_application that goes on to the standard method after the
\* terminate command has started
terminate_application_both(w, tag_config) ==
    LET terminate_command == strip(tag_config.terminate)
    IN  IF terminate_command # "" /\ w.inp.termOk
        THEN terminate_standard(
                 Emit(w, Fx("terminate_cmd", w.active_process,
                            terminate_command, "")))
        ELSE terminate_standard(w)

terminate_application(w, tag_config) ==
    LET terminate_command == strip(tag_config.terminate)
    IN  IF terminate_command # ""
        THEN IF w.inp.termOk
             THEN LET w1 == Emit(w, Fx("terminate_cmd", w.active_process,
                                       terminate_command, ""))
                  IN  IF w1.active_process = NoProcess THEN w1
                      ELSE Dies(w1, w1.active_process)
             ELSE terminate_standard(w)
        ELSE terminate_standard(w)

close_current_app(w) ==
    IF ~Truthy(w.active_tag) THEN w
    ELSE [terminate_application(w, GetTag(w.tags, w.active_tag))
            EXCEPT !.app_was_launched_by_us = FALSE]

\* ret: TRUE when the manager was started
launch_tag_manager(w, tag_id) ==
    IF ~w.config.auto_launch_manager THEN [w EXCEPT !.ret = FALSE]
    ELSE IF w.inp.mgrOk
    THEN [Emit(w, Fx("manager", 0, tag_id, "")) EXCEPT !.ret = TRUE]
    ELSE [w EXCEPT !.ret = FALSE]

----------------------------------------------------------------------------
(* Tag state machine *)

TagOf(line) == lower(strip(From(line, 3)))

InsertKnown(w, tag_id) ==
    LET tag_config == GetTag(w.tags, tag_id)
        command == strip(tag_config.command)
        \* w3 the world after launch_tag_manager
        Configure(w3) ==
            IF w3.ret
            THEN send_desktop_notification(w3, "Configuration Required")
            ELSE send_display_command(w3, "Config Error",
                     "Manager not found", "Edit manually:", tag_id, "0")
        \* w2 the world after the tag's display is sent
        Shown(w2) ==
            IF command = ""
            THEN Configure(launch_tag_manager(
                     send_display_command(w2, "Please configure",
                         "Tag (executable", "not found)", tag_id, "0"),
                     tag_id))
            ELSE IF ~w2.app_was_launched_by_us
            THEN IF w2.config.disable_autolaunch
                 THEN send_desktop_notification(
                          write_load_command(w2, command), "RFIDisk Ready")
                 ELSE launch_application(w2, tag_config.command,
                                         tag_config.line1, tag_config.line2)
            ELSE w2
        \* w1 the world after the previous application is closed
        Show(w1) ==
            Shown(send_display_command([w1 EXCEPT !.active_tag = tag_id],
                      tag_config.line1, tag_config.line2, tag_config.line3,
                      tag_config.line4, get_icon_type(tag_config.command)))
    IN  Show(IF w.active_process # NoProcess /\ w.active_tag # tag_id
             THEN close_current_app(w) ELSE w)

InsertUnknown(w, tag_id) ==
    LET \* w2 the world after launch_tag_manager
        Configure(w2) ==
            IF w2.ret THEN send_desktop_notification(w2, "New Tag")
            ELSE send_desktop_notification(
                     send_display_command(w2, "new entry", "configure me",
                         "edit rfidisk_tags.json", tag_id, "0"),
                     "New Tag")
    IN  Configure(launch_tag_manager(
            send_display_command(
                create_or_update_new_entry([w EXCEPT !.active_tag = tag_id],
                                           tag_id),
                "new tag detected", "launching config", "please wait...",
                tag_id, "0"),
            tag_id))

Insert(w, tag_id) ==
    LET wr == IF w.active_tag = tag_id /\ w.app_was_launched_by_us
              THEN is_process_running(w) ELSE [w EXCEPT !.ret = FALSE]
    IN  IF wr.ret THEN w
        ELSE LET w1 == load_config(wr)
             IN  IF HasTag(w1.tags, tag_id) THEN InsertKnown(w1, tag_id)
                 ELSE InsertUnknown(w1, tag_id)

\* Remove without the assignment active_tag = None
Remove_keeps_tag(w, tag_id) ==
    IF tag_id # w.active_tag THEN w
    ELSE send_display_command(
             clear_load_command(close_current_app(w)),
             IdleLines[1], IdleLines[2], IdleLines[3], IdleLines[4], "0")

\* Remove without the tests of lines 703 and 707: any removal closes
Remove_any(w, tag_id) ==
    send_display_command(
        clear_load_command(
            [close_current_app([w EXCEPT !.rx = @ \o w.inp.during])
               EXCEPT !.active_tag = None]),
        IdleLines[1], IdleLines[2], IdleLines[3], IdleLines[4], "0")

Remove(w, tag_id) ==
    IF tag_id # w.active_tag THEN w
    ELSE LET w1 == [w EXCEPT !.rx = @ \o w.inp.during]   \* time.sleep
         IN  IF w1.active_tag # tag_id THEN w1
             ELSE send_display_command(
                      clear_load_command(
                          [close_current_app(w1) EXCEPT !.active_tag = None]),
                      IdleLines[1], IdleLines[2], IdleLines[3], IdleLines[4],
                      "0")

\* process_serial_data without the test of line 576
process_serial_data_unguarded(w, line) ==
    IF StartsWith(line, "ON:") THEN Insert(w, TagOf(line))
    ELSE IF StartsWith(line, "OF:") THEN Remove(w, TagOf(line))
    ELSE w

process_serial_data(w, line) ==
    IF w.reconnecting THEN w
    ELSE IF StartsWith(line, "ON:") THEN Insert(w, TagOf(line))
    ELSE IF StartsWith(line, "OF:") THEN Remove(w, TagOf(line))
    ELSE w

\* cmd: the line read, or None.  sent is what the device has put on the line
\* when the input buffer holds nothing older.
read_serial(w, sent) ==
    LET \* w1 the world at the try, the port open when w1.ret
        ReadLine(w1) ==
            IF ~w1.ret THEN [w1 EXCEPT !.cmd = None]
            \* no port object: AttributeError, caught at line 730
            ELSE IF w1.serial_conn # "open" THEN [w1 EXCEPT !.cmd = None]
            ELSE IF NextIO(w1)
            THEN LET w2 == UseIO(w1)
                     waiting == IF w2.rx # <<>> THEN Head(w2.rx) ELSE sent
                     line == IF waiting = None THEN "" ELSE strip(waiting)
                     w3 == [w2 EXCEPT !.rx = IF @ # <<>> THEN Tail(@) ELSE @]
                 IN  IF line # ""
                     THEN [w3 EXCEPT !.serial_error_count = 0, !.cmd = line]
                     ELSE [w3 EXCEPT !.cmd = None]
            ELSE [reconnect_serial(UseIO(w1)) EXCEPT !.cmd = None]
    IN  ReadLine(IF w.serial_conn # "open" THEN reconnect_serial(w)
                 ELSE [w EXCEPT !.ret = TRUE])

\* the liveness check of run(), when due
process_check(w) ==
    IF w.app_was_launched_by_us /\ w.active_process # NoProcess
    THEN LET wr == is_process_running(w)
         IN  IF wr.ret THEN wr
             ELSE Emit([wr EXCEPT !.app_was_launched_by_us = FALSE,
                                  !.active_process = NoProcess],
                       Fx("exit_detected", w.active_process, "", ""))
    ELSE w

\* the load-trigger poll without the tests of line 781 on the active tag and
\* the ownership
load_check_unguarded(w) ==
    LET w1 == check_load_command(w)
        load_command == w1.cmd
    IN  IF Truthy(load_command)
        THEN LET tag_config == GetTag(w1.tags, w1.active_tag)
             IN  launch_application(
                     Emit(w1, Fx("trigger", 0, load_command, "")),
                     load_command,
                     IF HasTag(w1.tags, w1.active_tag)
                     THEN tag_config.line1 ELSE "App",
                     tag_config.line2)
        ELSE w1

\* the load-trigger poll of run(), when due
load_check(w) ==
    LET w1 == check_load_command(w)
        load_command == w1.cmd
    IN  IF Truthy(load_command) /\ Truthy(w1.active_tag)
           /\ ~w1.app_was_launched_by_us
        THEN LET tag_config == GetTag(w1.tags, w1.active_tag)
             IN  launch_application(
                     Emit(w1, Fx("trigger", 0, load_command, "")),
                     load_command,
                     IF HasTag(w1.tags, w1.active_tag)
                     THEN tag_config.line1 ELSE "App",
                     tag_config.line2)
        ELSE w1

\* shutdown that leaves the shared files where they are
shutdown_keeps_files(w) ==
    [w EXCEPT !.running = FALSE,
              !.serial_conn = IF @ = "open" THEN "closed" ELSE @]

shutdown(w) ==
    delete_shared_files([w EXCEPT !.running = FALSE,
                                  !.serial_conn =
                                      IF @ = "open" THEN "closed" ELSE @])

----------------------------------------------------------------------------
(* The daemon's steps *)

NoInputs == Inputs(<<>>, TRUE, TRUE, TRUE, TRUE, <<>>)

Init ==
    /\ active_tag = None
    /\ active_process = NoProcess
    /\ app_was_launched_by_us = FALSE
    /\ reconnecting = FALSE
    /\ recovery_mode = FALSE
    /\ serial_error_count = 0
    /\ last_display_state = IdleLines
    /\ pending_load_command = None
    /\ \E r \in InitRegistries : tagsFile = ValidFile(r) /\ tags = r
    /\ config \in InitSettings
    /\ serial_conn = None
    /\ running = TRUE
    /\ pc = "start"
    /\ data = None
    /\ sharedFile = NoFile
    /\ loadFile = NoFile
    /\ procs = <<>>
    /\ rx = <<>>
    /\ cli = [pc |-> "idle", content |-> ""]
    /\ port = "present"
    /\ used = [lines |-> 0, faults |-> 0, loads |-> 0]
    /\ last = [op |-> "init", arg |-> "", fx |-> <<>>]

\* run() up to the main loop: the initial connect and the idle display
Start ==
    /\ pc = "start"
    /\ \E io \in IOChoices :
         LET \* w0 the world after connect_serial
             Connected(w0) ==
                 /\ Commit(IF w0.ret
                           THEN send_display_command(w0,
                                    IdleLines[1], IdleLines[2], IdleLines[3],
                                    IdleLines[4], "0")
                           ELSE w0,
                           "start", "")
                 /\ pc' = IF w0.ret THEN "read" ELSE "done"
         IN  Connected(connect_serial(World([NoInputs EXCEPT !.io = io])))
    /\ UNCHANGED <<data, cli>>

\* data = self.read_serial()
Read ==
    /\ pc = "read"
    /\ running
    /\ \E io \in IOChoices,
          sent \in IF rx = <<>> /\ used.lines < MaxLines
                   THEN DeviceLines \cup {None} ELSE {None} :
         LET \* w the world after read_serial
             Returned(w) ==
                 /\ sent # None => w.cmd # None  \* a line sent is a line read
                 /\ Commit(w, "read", IF sent = None THEN "" ELSE sent)
                 /\ data' = w.cmd
                 /\ pc' = IF w.cmd # None THEN "dispatch" ELSE "tick"
         IN  Returned(read_serial(World([NoInputs EXCEPT !.io = io]), sent))
    /\ UNCHANGED cli

\* The inputs that can make a difference to the dispatch of line: a process
\* is closed only by an OF: of the active tag or an ON: of another tag, the
\* launch and the manager are reached only by an ON:, and lines arrive during
\* the removal delay only when there is one.
Closes(line) ==
    \/ StartsWith(line, "OF:") /\ TagOf(line) = active_tag
    \/ StartsWith(line, "ON:") /\ TagOf(line) # active_tag
                               /\ active_process # NoProcess
DispatchInputs(line) ==
    { Inputs(io, launchOk, termOk, dies, mgrOk, during) :
        io \in IOChoices,
        launchOk \in IF StartsWith(line, "ON:") /\ ~config.disable_autolaunch
                    THEN BOOLEAN ELSE {TRUE},
        termOk \in IF Closes(line) THEN BOOLEAN ELSE {TRUE},
        dies \in IF Closes(line) /\ active_process # NoProcess
                 THEN BOOLEAN ELSE {TRUE},
        mgrOk \in IF StartsWith(line, "ON:") /\ config.auto_launch_manager
                  THEN BOOLEAN ELSE {TRUE},
        during \in {<<>>} \cup
                   {<<l>> : l \in IF StartsWith(line, "OF:")
                                     /\ TagOf(line) = active_tag
                                     /\ config.removal_delay > 0
                                  THEN DeviceLines ELSE {}} }

\* self.process_serial_data(data)
Dispatch ==
    /\ pc = "dispatch"
    /\ \E inp \in DispatchInputs(data) :
         Commit(process_serial_data(World(inp), data), "dispatch", data)
    /\ pc' = "tick"
    /\ data' = None
    /\ UNCHANGED cli

\* The iterations in which the liveness check (every ProcessCheckEvery-th) and
\* the load-trigger poll (every LoadCheckEvery-th) are due, as the two counters
\* of run() make them fall: <<liveness due, poll due>>.
DueChoices ==
    { <<n % ProcessCheckEvery = 0, n % LoadCheckEvery = 0>> :
        n \in 1..(ProcessCheckEvery * LoadCheckEvery) }

\* the rest of the iteration: the two periodic checks and the sleep
TickDue(dues) ==
    /\ pc = "tick"
    /\ \E due \in dues,
          launchOk \in IF loadFile.exists /\ loadFile.content # ""
                      THEN BOOLEAN ELSE {TRUE} :
         LET w0 == World([NoInputs EXCEPT !.launchOk = launchOk])
             w1 == IF due[1] THEN process_check(w0) ELSE w0
             w2 == IF due[2] THEN load_check(w1) ELSE w1
         IN  Commit(w2, "tick", "")
    /\ pc' = "read"
    /\ UNCHANGED <<data, cli>>

Tick == TickDue(DueChoices)

----------------------------------------------------------------------------
(* The environment *)

\* what a step of the environment leaves in last
EnvStep == [op |-> "env", arg |-> "", fx |-> <<>>]

\* A launched process ends on its own.  read_serial does not look at the
\* processes: an exit before the read is an exit after it.
ProcessExit ==
    /\ pc \notin {"read", "done"}
    /\ \E pid \in DOMAIN procs :
         /\ procs[pid].st = "running"
         /\ procs' = [procs EXCEPT ![pid].st = "exited"]
         /\ last' = EnvStep
    /\ UNCHANGED <<daemonVars, loopVars, fileVars, rx, cli, envVars>>

\* The device is unplugged for good.  The periodic checks do no serial I/O:
\* an unplug before them is an unplug after them.
Unplug ==
    /\ pc \in {"read", "dispatch"}
    /\ used.lines <= MaxLinesBeforeUnplug
    /\ port = "present"
    /\ port' = "gone"
    /\ last' = EnvStep
    /\ UNCHANGED <<daemonVars, loopVars, fileVars, procs, rx, cli, used>>

\* handle_load_command, first half: the file is there and is read
CliLoadRead ==
    /\ cli.pc = "idle"
    /\ used.loads < MaxLoads
    /\ loadFile.exists
    /\ used' = [used EXCEPT !.loads = @ + 1]
    /\ cli' = [pc |-> "read", content |-> strip(loadFile.content)]
    /\ last' = EnvStep
    /\ UNCHANGED <<daemonVars, loopVars, fileVars, procs, rx, port>>

\* what the end of a `--load` invocation leaves in last: its exit code
CliExit(code) == [op |-> "cli", arg |-> code, fx |-> <<>>]

\* handle_load_command when the load file is not there: exit code 1
CliLoadMissing ==
    /\ cli.pc = "idle"
    /\ used.loads < MaxLoads
    /\ ~loadFile.exists
    /\ used' = [used EXCEPT !.loads = @ + 1]
    /\ last' = CliExit("1")
    /\ UNCHANGED <<daemonVars, loopVars, fileVars, procs, rx, cli, port>>

\* handle_load_command writing the trigger whatever it read
CliLoadWrite_unconditional ==
    /\ cli.pc = "read"
    /\ cli' = [pc |-> "idle", content |-> ""]
    /\ loadFile' = ShmFile(cli.content \o "\nTRIGGER")
    /\ last' = CliExit("0")
    /\ UNCHANGED <<daemonVars, loopVars, tagsFile, sharedFile, procs, rx,
                   envVars>>

\* handle_load_command, second half: the trigger is written, or exit code 1
CliLoadWrite ==
    /\ cli.pc = "read"
    /\ cli' = [pc |-> "idle", content |-> ""]
    /\ loadFile' = IF cli.content # ""
                   THEN ShmFile(cli.content \o "\nTRIGGER") ELSE loadFile
    /\ last' = CliExit(IF cli.content # "" THEN "0" ELSE "1")
    /\ UNCHANGED <<daemonVars, loopVars, tagsFile, sharedFile, procs, rx,
                   envVars>>

----------------------------------------------------------------------------
(* One publish on its own: send_display_command applied, as Insert applies *)
(* it to the entry of a known tag, in the states the main loop can be in   *)

\* what the registry file can hold for the lines and the command of a tag
PublishLine1 ==
    {"Game", "Tom|Jerry", "abcdefghijklmnopqrst",
     "abcdefghijklmnopqrstuvwxyz0123", "abcdefghijklmnopqrs|u|"}
PublishLine2 == {"", "one|two|three|four|five|six"}
PublishLine3 == {"", "abcdefghijklmn", "abcdefghijklm|o"}
PublishLine4 == {"a1b2", "||||||||||||||||"}
PublishCommands ==
    {"", " ", "\t", "steam://run/100", "STEAM://RUN/100", "Steam", " steam",
     "stea", "xterm", "xterm "}
PublishEntries ==
    { Entry("a1b2", c, l1, l2, l3, l4, "") :
        c \in PublishCommands, l1 \in PublishLine1, l2 \in PublishLine2,
        l3 \in PublishLine3, l4 \in PublishLine4 }

\* the main loop between two steps: no tag, or the tag a1b2 with its process;
\* the link up, down after one failed reconnect, or down with the retries
\* used up; the device there or gone
InitPublish ==
    /\ \E owned \in BOOLEAN :
         /\ active_tag = IF owned THEN "a1b2" ELSE None
         /\ active_process = IF owned THEN 1 ELSE NoProcess
         /\ app_was_launched_by_us = owned
         /\ procs = IF owned
                    THEN <<[st |-> "running", cmd |-> EntryGame.command]>>
                    ELSE <<>>
         /\ last_display_state =
                IF owned THEN <<EntryGame.line1, EntryGame.line2,
                                EntryGame.line3, EntryGame.line4>>
                ELSE IdleLines
    /\ \E link \in {<<"open", 0>>, <<None, 1>>, <<None, max_serial_errors>>} :
         /\ serial_conn = link[1]
         /\ serial_error_count = link[2]
         /\ reconnecting = (link[1] # "open")
    /\ port \in {"present", "gone"}
    /\ recovery_mode = FALSE
    /\ pending_load_command = None
    /\ tagsFile = ValidFile(<<EntryGame, EntryTerm>>)
    /\ tags = <<EntryGame, EntryTerm>>
    /\ config = [removal_delay |-> 0, desktop_notifications |-> TRUE,
                 auto_launch_manager |-> TRUE, disable_autolaunch |-> FALSE]
    /\ running = TRUE
    /\ pc = "publish"
    /\ data = None
    /\ sharedFile = ShmFile("Ready|Insert Disk||RFIDisk v" \o VERSION)
    /\ loadFile = ShmFile("")
    /\ rx = <<>>
    /\ cli = [pc |-> "idle", content |-> ""]
    /\ used = [lines |-> 0, faults |-> 0, loads |-> 0]
    /\ last = [op |-> "init", arg |-> "", fx |-> <<>>]

\* the display of a known tag: its four lines with the icon of its command
Publish ==
    /\ pc = "publish"
    /\ \E e \in PublishEntries, io \in IOChoices :
         LET \* w the world after send_display_command
             Returned(w) ==
                 Commit(w, "publish", [entry |-> e, ret |-> w.ret])
         IN  Returned(send_display_command(
                          World([NoInputs EXCEPT !.io = io]),
                          e.line1, e.line2, e.line3, e.line4,
                          get_icon_type(e.command)))
    /\ pc' = "published"
    /\ UNCHANGED <<data, cli>>

NextPublish == Publish

SpecPublish == InitPublish /\ [][NextPublish]_vars

----------------------------------------------------------------------------
(* One publish on a port that opens but does not take the writes *)

\* the writes of one send_display_command that fail although the port opens
MaxNest == 6

\* n times: the write fails, the port opens again; then the write succeeds
FlakyIO(n) == [i \in 1..(2 * n) |-> i % 2 = 0]

PublishFlaky ==
    /\ pc = "publish"
    /\ \E e \in PublishEntries, n \in 0..MaxNest :
         LET \* w the world after send_display_command
             Returned(w) ==
                 Commit(w, "publish", [entry |-> e, ret |-> w.ret])
         IN  Returned(send_display_command(
                          World([NoInputs EXCEPT !.io = FlakyIO(n)]),
                          e.line1, e.line2, e.line3, e.line4,
                          get_icon_type(e.command)))
    /\ pc' = "published"
    /\ UNCHANGED <<data, cli>>

NextNesting == PublishFlaky

SpecNesting == InitPublish /\ [][NextNesting]_vars

----------------------------------------------------------------------------
(* `--load` invocations between two polls of the load file *)

\* the `--load` invocations made between two polls
MaxTriggers == 3

\* the load file after one `--load` invocation run from start to end
handle_load_command(f) ==
    IF ~f.exists THEN f
    ELSE LET current_content == strip(f.content)
         IN  IF current_content # ""
             THEN ShmFile(current_content \o "\nTRIGGER")
             ELSE f

RECURSIVE handle_load_commands(_, _)
\* the load file after n such invocations, one after the other
handle_load_commands(f, n) ==
    IF n = 0 THEN f
    ELSE handle_load_commands(handle_load_command(f), n - 1)

\* the main loop before its periodic checks, the link up: no tag, the tag
\* a1b2 waiting for its trigger, or a1b2 with its process, running or
\* exited; the load file empty or holding the command
InitLoads ==
    /\ \E s \in {"none", "waiting", "running", "exited"} :
         /\ active_tag = IF s = "none" THEN None ELSE "a1b2"
         /\ active_process = IF s \in {"running", "exited"} THEN 1
                             ELSE NoProcess
         /\ app_was_launched_by_us = (s \in {"running", "exited"})
         /\ procs = IF s \in {"running", "exited"}
                    THEN <<[st |-> s, cmd |-> EntryGame.command]>>
                    ELSE <<>>
         /\ last_display_state =
                IF s = "none" THEN IdleLines
                ELSE <<EntryGame.line1, EntryGame.line2,
                       EntryGame.line3, EntryGame.line4>>
    /\ \E c \in {"", EntryGame.command} :
         /\ loadFile = ShmFile(c)
         /\ pending_load_command = IF c = "" THEN None ELSE c
    /\ serial_conn = "open"
    /\ serial_error_count = 0
    /\ reconnecting = FALSE
    /\ recovery_mode = FALSE
    /\ port = "present"
    /\ \E r \in InitRegistries : tagsFile = ValidFile(r) /\ tags = r
    /\ config \in InitSettings
    /\ running = TRUE
    /\ pc = "tick"
    /\ data = None
    /\ sharedFile = ShmFile("Ready|Insert Disk||RFIDisk v" \o VERSION)
    /\ rx = <<>>
    /\ cli = [pc |-> "idle", content |-> ""]
    /\ used = [lines |-> 0, faults |-> 0, loads |-> 0]
    /\ last = [op |-> "init", arg |-> "", fx |-> <<>>]

\* one to MaxTriggers `--load` invocations, before the poll
LoadBurst ==
    /\ pc = "tick"
    /\ used.loads = 0
    /\ \E n \in 1..MaxTriggers :
         /\ loadFile' = handle_load_commands(loadFile, n)
         /\ used' = [used EXCEPT !.loads = n]
    /\ last' = CliExit(IF strip(loadFile.content) # "" THEN "0" ELSE "1")
    /\ UNCHANGED <<daemonVars, loopVars, tagsFile, sharedFile, procs, rx, cli,
                   port>>

NextLoads ==
    \/ LoadBurst
    \/ Tick

SpecLoads == InitLoads /\ [][NextLoads]_vars

----------------------------------------------------------------------------
(* The main loop left alone with an owned process *)

\* the main loop with the link up, a configured tag active and its process
\* owned, running or just exited; the device sends nothing more and the
\* serial port meets no fault
InitQuiet ==
    /\ \E e \in {EntryGame, EntryTerm}, st \in {"running", "exited"} :
         /\ active_tag = e.id
         /\ active_process = 1
         /\ procs = <<[st |-> st, cmd |-> e.command]>>
         /\ last_display_state = <<e.line1, e.line2, e.line3, e.line4>>
         /\ sharedFile = ShmFile(e.line1 \o "|" \o e.line2 \o "|" \o e.line3
                                  \o "|" \o e.line4)
         /\ \E c \in {"", e.command} :
              /\ loadFile = ShmFile(c)
              /\ pending_load_command = IF c = "" THEN None ELSE c
    /\ app_was_launched_by_us = TRUE
    /\ serial_conn = "open"
    /\ serial_error_count = 0
    /\ reconnecting = FALSE
    /\ recovery_mode = FALSE
    /\ port = "present"
    /\ \E r \in InitRegistries : tagsFile = ValidFile(r) /\ tags = r
    /\ config \in InitSettings
    /\ running = TRUE
    /\ pc \in {"read", "tick"}
    /\ data = None
    /\ rx = <<>>
    /\ cli = [pc |-> "idle", content |-> ""]
    /\ used = [lines |-> MaxLines, faults |-> MaxFaults, loads |-> MaxLoads]
    /\ last = [op |-> "init", arg |-> "", fx |-> <<>>]

\* the iterations in which the liveness check is due
LivenessDue == {due \in DueChoices : due[1]}

NextQuiet ==
    \/ Read
    \/ Tick
    \/ ProcessExit

\* the loop goes on iterating, and process_check_counter reaches 20 again
\* and again
SpecQuiet ==
    /\ InitQuiet /\ [][NextQuiet]_vars
    /\ WF_vars(Read) /\ WF_vars(Tick) /\ SF_vars(TickDue(LivenessDue))

----------------------------------------------------------------------------
Next ==
    \/ Start
    \/ Read
    \/ Dispatch
    \/ Tick
    \/ ProcessExit
    \/ Unplug
    \/ CliLoadMissing
    \/ CliLoadRead
    \/ CliLoadWrite

Spec == Init /\ [][Next]_vars

----------------------------------------------------------------------------
(* process_serial_data called while the link is being re-established *)

\* the daemon after a reconnect that failed, once or up to the give-up: no
\* tag, the tag a1b2 with its process, or the unconfigured tag zz9; a line
\* of the device is handed to process_serial_data
InitIgnore ==
    /\ \E s \in {"none", "owned", "unowned"} :
         /\ active_tag = CASE s = "none" -> None
                           [] s = "owned" -> "a1b2"
                           [] OTHER -> "zz9"
         /\ active_process = IF s = "owned" THEN 1 ELSE NoProcess
         /\ app_was_launched_by_us = (s = "owned")
         /\ procs = IF s = "owned"
                    THEN <<[st |-> "running", cmd |-> EntryGame.command]>>
                    ELSE <<>>
         /\ last_display_state =
                IF s = "owned" THEN <<EntryGame.line1, EntryGame.line2,
                                      EntryGame.line3, EntryGame.line4>>
                ELSE IdleLines
         /\ loadFile = ShmFile(IF s = "owned" THEN EntryGame.command ELSE "")
         /\ pending_load_command = IF s = "owned" THEN EntryGame.command
                                   ELSE None
    /\ serial_conn = None
    /\ serial_error_count \in {1, max_serial_errors, max_serial_errors + 1}
    /\ reconnecting = TRUE
    /\ recovery_mode = FALSE
    /\ port \in {"present", "gone"}
    /\ \E r \in InitRegistries : tagsFile = ValidFile(r) /\ tags = r
    /\ config \in InitSettings
    /\ running = TRUE
    /\ pc = "dispatch"
    /\ data \in DeviceLines
    /\ sharedFile = ShmFile("Ready|Insert Disk||RFIDisk v" \o VERSION)
    /\ rx = <<>>
    /\ cli = [pc |-> "idle", content |-> ""]
    /\ used = [lines |-> 0, faults |-> 0, loads |-> 0]
    /\ last = [op |-> "init", arg |-> "", fx |-> <<>>]

NextIgnore == Dispatch

SpecIgnore == InitIgnore /\ [][NextIgnore]_vars

----------------------------------------------------------------------------
(* The daemon with the ends of run() and a registry file that goes bad *)

\* the daemon started with the registry of the two configured tags and the
\* default settings but for the removal delay
InitFaults ==
    /\ Init
    /\ tags = <<EntryGame, EntryTerm>>
    /\ config = [removal_delay |-> 0, desktop_notifications |-> TRUE,
                 auto_launch_manager |-> TRUE, disable_autolaunch |-> FALSE]

\* KeyboardInterrupt in the main loop: the except clause, then the finally
\* clause of run()
Interrupt ==
    /\ pc \in {"read", "dispatch", "tick"}
    /\ Commit(shutdown([World(NoInputs) EXCEPT !.running = FALSE]),
              "interrupt", "")
    /\ pc' = "done"
    /\ UNCHANGED <<data, cli>>

\* An exception leaves process_serial_data, which catches none: the finally
\* clause of run() calls shutdown, and so does main when the exception
\* reaches it
Raise ==
    /\ pc = "dispatch"
    /\ Commit(shutdown(shutdown(World(NoInputs))), "raise", data)
    /\ pc' = "done"
    /\ UNCHANGED <<data, cli>>

\* The registry file is damaged, or made unreadable, before the reload of an
\* Insert: json.load or open will raise
CorruptRegistry ==
    /\ pc = "dispatch"
    /\ StartsWith(data, "ON:")
    /\ tagsFile.state = "valid"
    /\ tagsFile' = [state |-> "corrupt", tags |-> <<>>]
    /\ last' = EnvStep
    /\ UNCHANGED <<daemonVars, loopVars, sharedFile, loadFile, procs, rx, cli,
                   envVars>>

\* The registry file is removed while the link is down, before the reload
\* of a recovery: os.path.exists(TAGS_FILE) will be false
DeleteRegistry ==
    /\ pc = "read"
    /\ serial_conn # "open"
    /\ tagsFile.state = "valid"
    /\ tagsFile' = [state |-> "missing", tags |-> <<>>]
    /\ last' = EnvStep
    /\ UNCHANGED <<daemonVars, loopVars, sharedFile, loadFile, procs, rx, cli,
                   envVars>>

NextFaults ==
    \/ Next
    \/ Interrupt
    \/ Raise
    \/ CorruptRegistry
    \/ DeleteRegistry

SpecFaults == InitFaults /\ [][NextFaults]_vars

----------------------------------------------------------------------------
(* What a step did, read from last.fx *)

Did(fx, k) == \E i \in DOMAIN fx : fx[i].k = k
Only(fx, k) == SelectSeq(fx, LAMBDA e : e.k = k)
Count(fx, k) == Len(Only(fx, k))

\* a termination was initiated: the tag's terminate command was started, or
\* SIGTERM was sent to the group of the process
TerminationInitiated(fx) == Did(fx, "terminate_cmd") \/ Did(fx, "SIGTERM")
\* a process was spawned, or its spawn was attempted
LaunchAttempts(fx) == Count(fx, "launch") + Count(fx, "launch_failed")
\* the outcomes of the connect attempts, in order
Connects(fx) == [i \in DOMAIN Only(fx, "connect") |-> Only(fx, "connect")[i].s]

\* the step is the dispatch of a line with this prefix
DispatchOf(prefix) ==
    pc = "dispatch" /\ last'.op = "dispatch" /\ StartsWith(data, prefix)
\* the step is a serial read
IsRead == pc = "read" /\ last'.op = "read"

\* the daemon owns a process that is alive
OwnsLiveProcess ==
    /\ app_was_launched_by_us
    /\ active_process # NoProcess
    /\ procs[active_process].st = "running"
\* the process owned runs the command the registry gives for tag id
LaunchedFor(id) ==
    /\ HasTag(tags, id)
    /\ strip(GetTag(tags, id).command) # ""
    /\ procs[active_process].cmd = GetTag(tags, id).command

IdleWire == "D|Ready|Insert Disk||RFIDisk v" \o VERSION \o "|0"

----------------------------------------------------------------------------
(* The claims *)

\* C1 (teardown on removal): when OF:X is dispatched while the daemon owns a
\* live process that it launched for tag X, the dispatch initiates the
\* termination of that process (terminate command or SIGTERM) and ends with
\* the ownership released and no active tag.
C1_TeardownOnRemoval ==
    [][ DispatchOf("OF:") /\ OwnsLiveProcess /\ LaunchedFor(TagOf(data))
        => /\ TerminationInitiated(last'.fx)
           /\ ~app_was_launched_by_us'
           /\ active_tag' = None ]_vars

\* C2 (ownership invariant): in every state between two steps of the main
\* loop, app_was_launched_by_us implies that a process handle is held and
\* that a tag is active.
C2_OwnershipInvariant ==
    app_was_launched_by_us => active_process # NoProcess /\ active_tag # None

\* C3 (idempotent insertion): the dispatch of ON:X while X is the active tag,
\* app_was_launched_by_us holds and the owned process is alive does nothing:
\* no process, no notification, no publish, and the daemon's fields, the
\* registry, the shared files, the processes and the input buffer are as
\* they were.
C3_IdempotentInsertion ==
    [][ DispatchOf("ON:") /\ TagOf(data) = active_tag /\ OwnsLiveProcess
        => /\ last'.fx = <<>>
           /\ UNCHANGED <<daemonVars, fileVars, procs, rx>> ]_vars

\* an ON: of the active tag was dispatched with its process alive, and nothing
\* was done
C3_Witness ==
    /\ last.op = "dispatch"
    /\ StartsWith(last.arg, "ON:")
    /\ TagOf(last.arg) = active_tag
    /\ OwnsLiveProcess
    /\ last.fx = <<>>

\* C4 (debounce re-insertion): when OF:X of the active tag X is dispatched
\* and ON:X reaches the port during the removal delay, the owned process of X
\* is not terminated.
C4_DebounceReinsertion ==
    [][ /\ DispatchOf("OF:") /\ TagOf(data) = active_tag /\ OwnsLiveProcess
        /\ rx = <<>> /\ rx' # <<>>
        /\ StartsWith(Head(rx'), "ON:") /\ TagOf(Head(rx')) = active_tag
        => /\ ~TerminationInitiated(last'.fx)
           /\ ~Did(last'.fx, "SIGKILL")
           /\ procs'[active_process].st = "running" ]_vars

C6_LinkGiveUp ==
    [][ serial_error_count > max_serial_errors => pc' = pc ]_vars

\* C7 (terminate releases ownership): when the dispatch of OF:X of the active
\* tag X has run close_current_app and terminate_application, on whichever
\* path, no process handle is held and app_was_launched_by_us is false.
C7_TerminateReleasesOwnership ==
    [][ DispatchOf("OF:") /\ TagOf(data) = active_tag /\ Truthy(active_tag)
        => active_process' = NoProcess /\ ~app_was_launched_by_us' ]_vars

\* the registry file holds the entry of the scenario for tag a1b2
StoresGame ==
    /\ HasTag(tagsFile.tags, "a1b2")
    /\ GetTag(tagsFile.tags, "a1b2").command = "steam://run/100"
    /\ GetTag(tagsFile.tags, "a1b2").line1 = "Game"

\* the first Insert("a1b2") of the scenario, publishing with this icon: one
\* spawn is attempted (one process, when it succeeds), the first display
\* published is D|Game||||<icon>, and it is what is written to the device
\* when the link does not fail
FirstInsertGame(icon) ==
    DispatchOf("ON:") /\ TagOf(data) = "a1b2" /\ StoresGame
    /\ ~config.disable_autolaunch
    /\ active_tag = None /\ ~app_was_launched_by_us
    => LET line == "D|Game||||" \o icon
       IN  /\ LaunchAttempts(last'.fx) = 1
           /\ Len(procs') = Len(procs) + Count(last'.fx, "launch")
           /\ Only(last'.fx, "publish")[1].s = line
           /\ Only(last'.fx, "publish")[1].t = icon
           /\ Connects(last'.fx) = <<>>
                  => Did(last'.fx, "wire") /\ Only(last'.fx, "wire")[1].s = line

\* the Insert("a1b2") that follows a launch: nothing is spawned
SecondInsertGame ==
    DispatchOf("ON:") /\ TagOf(data) = "a1b2" /\ StoresGame
    /\ ~config.disable_autolaunch
    /\ app_was_launched_by_us /\ active_tag \in {"a1b2", None}
    => LaunchAttempts(last'.fx) = 0 /\ Len(procs') = Len(procs)

C9_RemovalPostcondition ==
    [][ DispatchOf("OF:") /\ TagOf(data) = active_tag
        => /\ active_tag' = None
           /\ ~app_was_launched_by_us'
           /\ loadFile' = ShmFile("")
           /\ pending_load_command' = None
           /\ Did(last'.fx, "publish")
           /\ LET p == Only(last'.fx, "publish")
              IN  p[Len(p)].s = IdleWire /\ p[Len(p)].t = "0"
           /\ last_display_state' = IdleLines ]_vars

\* C10 (unknown tag insertion): the dispatch of ON:id for an id that the
\* registry file does not hold makes id the active tag, leaves the registry,
\* in memory and in the file, with an entry for id whose line1 is "new entry"
\* and whose command is empty, publishes the configuration-needed display
\* with icon 0, and neither spawns nor terminates a process.
C10_UnknownTagInsertion ==
    [][ /\ DispatchOf("ON:")
        /\ ~HasTag(tagsFile.tags, TagOf(data))
        /\ ~(active_tag = TagOf(data) /\ app_was_launched_by_us)
        => LET id == TagOf(data)
           IN  /\ active_tag' = id
               /\ HasTag(tags', id)
               /\ GetTag(tags', id).line1 = "new entry"
               /\ GetTag(tags', id).command = ""
               /\ tagsFile' = ValidFile(tags')
               /\ \E i \in DOMAIN last'.fx :
                      /\ last'.fx[i].k = "publish"
                      /\ last'.fx[i].t = "0"
                      /\ last'.fx[i].s =
                             WireLine("new tag detected", "launching config",
                                      "please wait...", id, "0")
               /\ LaunchAttempts(last'.fx) = 0
               /\ ~TerminationInitiated(last'.fx)
               /\ ~Did(last'.fx, "SIGKILL")
               /\ Len(procs') = Len(procs) ]_vars

\* the load file holds a command followed by the TRIGGER line
Triggered(f) ==
    /\ f.exists
    /\ Len(SplitLines(strip(f.content))) >= 2
    /\ SplitLines(strip(f.content))[2] = "TRIGGER"
\* the command on line 1 of the load file
Line1(f) == strip(SplitLines(strip(f.content))[1])
\* the step is the rest of an iteration in which the load-trigger poll found
\* the TRIGGER line (it is the poll that takes the line out of the file)
PollFoundTrigger ==
    pc = "tick" /\ last'.op = "tick" /\ Triggered(loadFile) /\ loadFile' # loadFile
\* the step is the rest of an iteration and the load file holds no TRIGGER
TickWithoutTrigger ==
    pc = "tick" /\ last'.op = "tick" /\ ~Triggered(loadFile)

\* the first half of C11: Insert with autolaunch disabled
DeferredInsert ==
    /\ DispatchOf("ON:")
    /\ config.disable_autolaunch
    /\ HasTag(tagsFile.tags, TagOf(data))
    /\ strip(GetTag(tagsFile.tags, TagOf(data)).command) # ""
    /\ ~(TagOf(data) = active_tag /\ app_was_launched_by_us)
    => /\ loadFile' = ShmFile(GetTag(tagsFile.tags, TagOf(data)).command)
       /\ LaunchAttempts(last'.fx) = 0
       /\ Len(procs') = Len(procs)

\* the second half of C11: the poll that finds the TRIGGER of a deferred
\* command spawns it, once, and takes the TRIGGER out of the file
TriggeredLaunch ==
    PollFoundTrigger /\ config.disable_autolaunch
    /\ pending_load_command = Line1(loadFile)
    => /\ LaunchAttempts(last'.fx) = 1
       /\ \E i \in DOMAIN last'.fx :
              /\ last'.fx[i].k \in {"launch", "launch_failed"}
              /\ last'.fx[i].s = Line1(loadFile)
       /\ loadFile' = ShmFile(Line1(loadFile))

\* C11 (deferred launch): with disable_autolaunch, the dispatch of ON:X for a
\* known tag with a command writes exactly that command, without TRIGGER, to
\* the load file and spawns nothing; the poll that finds the TRIGGER appended
\* by --load to the pending command spawns that command exactly once and
\* removes the TRIGGER; and a poll that finds no TRIGGER spawns nothing.
C11_DeferredLaunch ==
    [][ /\ DeferredInsert
        /\ TriggeredLaunch
        /\ (TickWithoutTrigger => LaunchAttempts(last'.fx) = 0) ]_vars

\* the step is a publish on its own
IsPublish == pc = "publish" /\ last'.op = "publish"

Char(s, k) == SubSeq(s, k, k)
Min(a, b) == IF a <= b THEN a ELSE b

\* the pipe-separated fields of a line: acc is the field being read
RECURSIVE FieldsAcc(_, _)
FieldsAcc(s, acc) ==
    IF s = "" THEN <<acc>>
    ELSE IF Head(s) = "|" THEN <<acc>> \o FieldsAcc(Tail(s), "")
    ELSE FieldsAcc(Tail(s), acc \o Head(s))
PipeFields(s) == FieldsAcc(s, "")

\* f is the first n characters of line with every '|' replaced by '_'
IsWireField(f, line, n) ==
    /\ Len(f) = Min(Len(line), n)
    /\ \A k \in 1..Len(f) :
           Char(f, k) = IF Char(line, k) = "|" THEN "_" ELSE Char(line, k)

\* C12 (wire formatting): every line a publish writes to the serial link has
\* exactly 6 pipe-separated fields; when the publish of line1..line4 and icon
\* returns true, the line it wrote is D|f1|f2|f3|f4|icon, f1 and f2 the first
\* 20 characters of line1 and line2, f3 and f4 the first 14 characters of
\* line3 and line4, each with every '|' replaced by '_'; and what the publish
\* writes to the shared display file is line1|line2|line3|line4, neither cut
\* nor escaped.
C12_WireFormatting ==
    [][ IsPublish
        => LET e == last'.arg.entry
               wires == Only(last'.fx, "wire")
               f == PipeFields(wires[Len(wires)].s)
           IN  /\ \A i \in DOMAIN wires : Len(PipeFields(wires[i].s)) = 6
               /\ last'.arg.ret
                  => /\ wires # <<>>
                     /\ f[1] = "D"
                     /\ IsWireField(f[2], e.line1, 20)
                     /\ IsWireField(f[3], e.line2, 20)
                     /\ IsWireField(f[4], e.line3, 14)
                     /\ IsWireField(f[5], e.line4, 14)
                     /\ f[6] = Only(last'.fx, "publish")[1].t
               /\ Only(last'.fx, "shared")[1].s =
                      e.line1 \o "|" \o e.line2 \o "|" \o e.line3 \o "|"
                              \o e.line4 ]_vars

\* a 30-character line1 and lines with pipes were published, and written
C12_Witness ==
    /\ last.op = "publish"
    /\ last.arg.ret
    /\ last.arg.entry.line1 = "abcdefghijklmnopqrstuvwxyz0123"
    /\ last.arg.entry.line2 = "one|two|three|four|five|six"
    /\ last.arg.entry.line3 = "abcdefghijklm|o"
    /\ last.arg.entry.line4 = "||||||||||||||||"
    /\ last.arg.entry.command = "xterm"
    /\ Only(last.fx, "wire")[1].s =
           "D|abcdefghijklmnopqrst|one_two_three_four_f|abcdefghijklm_|______________|1"
    /\ Only(last.fx, "shared")[1].s =
           "abcdefghijklmnopqrstuvwxyz0123|one|two|three|four|five|six|abcdefghijklm|o|||||||||||||||||"

\* C13 (shared display file is authoritative): when the publish of l1..l4 has
\* returned, whether its serial write succeeded, failed or made it run a
\* reconnect, the shared display file holds exactly l1|l2|l3|l4.
C13_SharedFileAuthoritative ==
    [][ IsPublish
        => LET e == last'.arg.entry
           IN  sharedFile' = ShmFile(e.line1 \o "|" \o e.line2 \o "|"
                                     \o e.line3 \o "|" \o e.line4) ]_vars

\* C14 (at most one active tag): active_tag is one value, and it follows the
\* events: the dispatch of ON:X leaves it X or None; the dispatch of OF:X
\* leaves it None when X was the active tag, and as it was or None otherwise;
\* and no other step gives it a new id.  So after each event it is None or
\* the id of the last Insert processed whose tag was not removed since.
C14_AtMostOneActiveTag ==
    [][ /\ DispatchOf("ON:") => active_tag' \in {None, TagOf(data)}
        /\ DispatchOf("OF:") /\ TagOf(data) = active_tag => active_tag' = None
        /\ ~DispatchOf("ON:") => active_tag' \in {None, active_tag} ]_vars

\* a1b2 was inserted and its command launched, then c3d4 was inserted: c3d4
\* is the active tag
C14_Witness ==
    /\ last.op = "dispatch" /\ last.arg = "ON:c3d4"
    /\ active_tag = "c3d4"
    /\ Len(procs) >= 1 /\ procs[1].cmd = EntryGame.command

\* command starts with "steam", whatever the case of its letters
StartsWithSteam(command) ==
    /\ Len(command) >= 5
    /\ \A k \in 1..5 :
           Char(command, k) \in {Char("steam", k), Char("STEAM", k)}
\* command is made of blanks only (the empty command included)
IsBlank(command) == \A k \in 1..Len(command) : IsSpace(Char(command, k))
\* the icon a publish of an entry is given
PublishedIcon == Only(last'.fx, "publish")[1].t

\* C15 (icon code), with the blank command: the icon published for an entry
\* is "2" if its command starts case-insensitively with "steam", "0" if its
\* command is empty or made of white space only, and "1" for any other
\* command.
C15_IconCode ==
    [][ IsPublish
        => LET command == last'.arg.entry.command
           IN  PublishedIcon = IF StartsWithSteam(command) THEN "2"
                               ELSE IF IsBlank(command) THEN "0"
                               ELSE "1" ]_vars

\* the three icons were published: here "0" for a command of one space
C15_Witness ==
    /\ last.op = "publish"
    /\ last.arg.entry.command = " "
    /\ Only(last.fx, "publish")[1].t = "0"
    /\ last.arg.ret

\* C15 as the specification words it: "1" for any non-empty command that
\* does not start with "steam", "0" for the empty command only.
C15_AsWritten ==
    [][ IsPublish
        => LET command == last'.arg.entry.command
           IN  PublishedIcon = IF StartsWithSteam(command) THEN "2"
                               ELSE IF command # "" THEN "1"
                               ELSE "0" ]_vars

\* the step is the end of a `--load` invocation
IsCliExit == last'.op = "cli" /\ (cli.pc = "read" \/ used'.loads > used.loads)

\* C16 (CLI --load): an invocation that finds no load file, or reads no
\* command from it, ends with exit code 1 and leaves the load file as it is;
\* an invocation that read a command ends with exit code 0 and rewrites the
\* file to what it read followed by a TRIGGER line, the command it read
\* still on line 1.
C16_CliLoad ==
    [][ IsCliExit
        => IF cli.pc = "read" /\ cli.content # ""
           THEN LET read == SplitLines(cli.content)
                    written == SplitLines(loadFile'.content)
                IN  /\ last'.arg = "0"
                    /\ loadFile'.exists
                    /\ written = read \o <<"TRIGGER">>
                    /\ written[1] = read[1]
           ELSE /\ last'.arg = "1"
                /\ loadFile' = loadFile ]_vars

\* a `--load` found the deferred command of a1b2 and appended the TRIGGER
C16_Witness ==
    /\ last.op = "cli" /\ last.arg = "0"
    /\ loadFile = ShmFile("steam://run/100\nTRIGGER")
    /\ pending_load_command = "steam://run/100"

\* the step is the end of the main loop
LoopEnds ==
    pc \in {"read", "dispatch", "tick"} /\ last'.op \in {"interrupt", "raise"}

\* C17 (teardown on exit): when the main loop, entered after a successful
\* initial connect, ends, by KeyboardInterrupt or by an exception raised in
\* an iteration, the serial handle is no longer open and neither the shared
\* display file nor the load file exists.
C17_TeardownOnExit ==
    [][ LoopEnds
        => /\ pc' = "done"
           /\ ~running'
           /\ serial_conn' # "open"
           /\ ~sharedFile'.exists
           /\ ~loadFile'.exists ]_vars

\* the loop ended with an exception while a tag was active, its process
\* owned and the port open: the port is closed and the files are gone
C17_Witness ==
    /\ last.op = "raise"
    /\ pc = "done"
    /\ app_was_launched_by_us /\ Truthy(active_tag)
    /\ serial_conn = "closed"
    /\ ~sharedFile.exists /\ ~loadFile.exists

\* the registry file cannot be read when ON:id is dispatched, and the
\* dispatch is not the one that C3 leaves without effect
InsertWithCorruptRegistry ==
    /\ DispatchOf("ON:")
    /\ tagsFile.state = "corrupt"
    /\ ~(TagOf(data) = active_tag /\ OwnsLiveProcess)

\* C18 (storage error fallback): when the registry file is unreadable or
\* corrupt at the reload of an Insert, the daemon goes on with the registry
\* it held in memory: the registry in memory is as it was, a tag that it
\* holds is treated as known (its display is published, not the new-tag
\* display), and the registry file is not written.
C18_StorageErrorFallback ==
    [][ InsertWithCorruptRegistry
        => LET id == TagOf(data)
               e == GetTag(tags, id)
           IN  /\ tags' = tags
               /\ tagsFile' = tagsFile
               /\ HasTag(tags, id)
                  => /\ Only(last'.fx, "publish")[1].s =
                            WireLine(e.line1, e.line2, e.line3, e.line4,
                                     get_icon_type(e.command))
                     /\ ~Did(last'.fx, "manager") ]_vars

\* the spawn of the command of the tag inserted failed
LaunchFailedAtInsert == DispatchOf("ON:") /\ Did(last'.fx, "launch_failed")
\* ON:X is dispatched for the active tag X, known with a command, nothing
\* being launched by the daemon, with autolaunch enabled
RetryByInsert ==
    /\ DispatchOf("ON:")
    /\ TagOf(data) = active_tag
    /\ ~app_was_launched_by_us
    /\ ~config.disable_autolaunch
    /\ HasTag(tagsFile.tags, TagOf(data))
    /\ strip(GetTag(tagsFile.tags, TagOf(data)).command) # ""

\* C19 (launch failure): when the spawn of the command of an inserted known
\* tag fails, the dispatch ends with that tag active, app_was_launched_by_us
\* false and no process handle held; and in such a state a later ON: of the
\* same tag, or a later poll that finds a TRIGGER, attempts the spawn again.
C19_LaunchFailure ==
    [][ /\ LaunchFailedAtInsert
           => /\ active_tag' = TagOf(data)
              /\ ~app_was_launched_by_us'
              /\ active_process' = NoProcess
        /\ RetryByInsert => LaunchAttempts(last'.fx) = 1
        /\ PollFoundTrigger /\ Truthy(active_tag) /\ ~app_was_launched_by_us
           => LaunchAttempts(last'.fx) = 1 ]_vars

\* C20 (no launch while reconnecting): no step spawns a process and ends
\* with reconnecting true; neither the dispatch of an ON:, where the spawn is
\* the last thing done, nor the load-trigger poll, which leaves reconnecting
\* as it found it.
C20_NoLaunchWhileReconnecting ==
    [][ Did(last'.fx, "launch") => ~reconnecting' ]_vars

\* the command the registry in memory gives for the active tag
ActiveCommand == strip(GetTag(tags, active_tag).command)

\* C21 (load-trigger launches the active tag's command): every spawn made by
\* the load-trigger poll is of the command configured for the tag that is
\* active when the poll runs; the command written for an earlier tag is not
\* spawned while another tag, known without command or unknown, is active.
C21_TriggerLaunchesActiveCommand ==
    [][ pc = "tick" /\ last'.op = "tick" /\ Did(last'.fx, "trigger")
        => /\ HasTag(tags, active_tag)
           /\ ActiveCommand # ""
           /\ \A i \in DOMAIN last'.fx :
                  last'.fx[i].k \in {"launch", "launch_failed"}
                  => last'.fx[i].s = ActiveCommand ]_vars

\* C22 (owned process belongs to the active tag): while the process owned
\* stays the same and stays owned, the active tag stays the same: no step
\* makes another id the active tag, or leaves no tag active, with the process
\* of the previous tag still owned; and a step that spawns a process and
\* owns it ends with a tag active.
C22_OwnedProcessOfActiveTag ==
    [][ /\ /\ app_was_launched_by_us /\ active_process # NoProcess
           /\ app_was_launched_by_us' /\ active_process' = active_process
           => active_tag' = active_tag
        /\ Did(last'.fx, "launch") /\ app_was_launched_by_us'
           => Truthy(active_tag') ]_vars

\* the position of the first effect of fx that satisfies P, 0 when none does
FirstAt(fx, P(_)) ==
    IF \E i \in DOMAIN fx : P(fx[i])
    THEN CHOOSE i \in DOMAIN fx : P(fx[i]) /\ \A j \in 1..(i - 1) : ~P(fx[j])
    ELSE 0
IsTermination(e) == e.k \in {"terminate_cmd", "SIGTERM"}
IsSpawn(e) == e.k \in {"launch", "launch_failed"}
IsDisplay(e) == e.k = "publish"

\* ON:B is dispatched for a known tag B while another tag is active and its
\* process is owned and alive
TagSwitch ==
    /\ DispatchOf("ON:")
    /\ HasTag(tagsFile.tags, TagOf(data))
    /\ active_tag # None /\ active_tag # TagOf(data)
    /\ OwnsLiveProcess

\* C23 (tag switch ordering): when ON:B of a known tag B is dispatched while
\* another tag A is active with an owned live process, the termination of
\* A's process is initiated, before B's display is published (B is made the
\* active tag just before it) and before any spawn; a spawn is made only
\* with the ownership of A's process released: the process owned afterwards,
\* if any, is the new one.
C23_TagSwitchOrdering ==
    [][ TagSwitch
        => LET fx == last'.fx
               t == FirstAt(fx, IsTermination)
           IN  /\ t > 0
               /\ FirstAt(fx, IsDisplay) > t
               /\ \A i \in DOMAIN fx : IsSpawn(fx[i]) => i > t
               /\ Did(fx, "launch")
                  => active_process' # active_process ]_vars

IsConnectOrRecover(e) ==
    \/ e.k = "connect" /\ e.s = "ok"
    \/ e.k = "recover"

\* the successful connects and the recoveries of fx, in order
ConnectsAndRecoveries(fx) ==
    LET cr == SelectSeq(fx, IsConnectOrRecover)
    IN  [i \in DOMAIN cr |-> cr[i].k]

\* connect, recover, connect, recover, ...: every successful connect is
\* followed by its recovery before anything else of the two happens
Alternates(ks) ==
    /\ Len(ks) % 2 = 0
    /\ \A i \in DOMAIN ks : ks[i] = IF i % 2 = 1 THEN "connect" ELSE "recover"

\* C24 (recovery once per successful reconnect): in every step, each
\* successful connect made by a reconnect is followed by exactly one run of
\* the recovery, and no recovery runs otherwise; the initial connect, the
\* first of the start step, is followed by none. recovery_mode is false when
\* the step ends, and a step that ends with reconnecting cleared after an
\* attempt to reconnect, or that clears the reconnecting it started with, has
\* run the recovery.
C24_RecoveryOncePerReconnect ==
    [][ LET ks == ConnectsAndRecoveries(last'.fx)
        IN  /\ last'.op # "start" => Alternates(ks)
            /\ last'.op = "start"
               => \/ ks = <<>>
                  \/ ks[1] = "connect" /\ Alternates(Tail(ks))
            /\ ~recovery_mode'
            /\ reconnecting /\ ~reconnecting' => Did(last'.fx, "recover")
            /\ /\ last'.op # "start" /\ Did(last'.fx, "connect")
               /\ ~reconnecting'
               => Did(last'.fx, "recover") ]_vars

\* a read found the link down with no tag active, reconnected and recovered
C24_Witness ==
    /\ last.op = "read"
    /\ ConnectsAndRecoveries(last.fx) = <<"connect", "recover">>
    /\ active_tag = None
    /\ ~reconnecting /\ ~recovery_mode

\* a read whose only operation is one reconnect that succeeds: the step is
\* one run of recover_after_disconnection
RecoveryOnly == IsRead /\ Connects(last'.fx) = <<"ok">>

\* the recovery keeps an active tag whose process is owned and else clears
\* the tag and the ownership; it spawns nothing, signals nothing and keeps
\* the process handle
RecoveryKeepsOrClears ==
    /\ IF Truthy(active_tag) /\ app_was_launched_by_us
       THEN active_tag' = active_tag /\ app_was_launched_by_us'
       ELSE active_tag' = None /\ ~app_was_launched_by_us'
    /\ \A i \in DOMAIN last'.fx :
           last'.fx[i].k \notin {"launch", "launch_failed", "SIGTERM",
                                 "SIGKILL", "terminate_cmd"}
    /\ active_process' = active_process
    /\ procs' = procs

\* C25 (recovery frame) as amended: a recovery keeps active_tag and the
\* ownership when a tag is active and its process owned, and else sets
\* active_tag to None and the ownership to false; it spawns no process,
\* sends no signal and leaves active_process unchanged; it leaves the
\* registry file unchanged, except that a recovery with an owned active tag
\* that finds no registry file creates it with the default example entry.
C25_RecoveryFrame ==
    [][ RecoveryOnly
        => /\ RecoveryKeepsOrClears
           /\ tagsFile' = IF /\ tagsFile.state = "missing"
                             /\ Truthy(active_tag) /\ app_was_launched_by_us
                          THEN ValidFile(default_tags)
                          ELSE tagsFile ]_vars

\* C25 as written: the registry file is unchanged by every recovery
C25_AsWritten ==
    [][ RecoveryOnly => RecoveryKeepsOrClears /\ tagsFile' = tagsFile ]_vars

\* a recovery with an owned active tag found no registry file: the tag and
\* the process are kept, the file exists again with the example entry
C25_Witness ==
    /\ last.op = "read"
    /\ Connects(last.fx) = <<"ok">>
    /\ Count(last.fx, "recover") = 1
    /\ Truthy(active_tag) /\ app_was_launched_by_us
    /\ active_process # NoProcess
    /\ tagsFile = ValidFile(default_tags)
    /\ last_display_state[1] = "State Error"

\* C26 (notification suppression): every desktop notification delivered, in
\* any step and for any requester, is delivered in a state where neither
\* recovery_mode nor reconnecting is true.
C26_NotificationSuppression ==
    [][ \A i \in DOMAIN last'.fx :
            last'.fx[i].k = "notify" => last'.fx[i].t = "" ]_vars

\* with notifications enabled, the Insert of a configured tag lost the link
\* at its display: the application was launched with reconnecting true and
\* neither the insertion nor the launch was notified
C26_Witness ==
    /\ last.op = "dispatch"
    /\ StartsWith(last.arg, "ON:")
    /\ config.desktop_notifications
    /\ reconnecting
    /\ Did(last.fx, "launch")
    /\ ~Did(last.fx, "notify")

\* C27 (events ignored while reconnecting): a line dispatched while
\* reconnecting is true has no effect: nothing is launched, terminated,
\* published or notified, and the active tag, the ownership, the process
\* handle and the processes, the registry in memory and on disk, the load
\* file and the display are unchanged.
C27_IgnoredWhileReconnecting ==
    [][ pc = "dispatch" /\ reconnecting
        => /\ last'.op = "dispatch"
           /\ last'.fx = <<>>
           /\ UNCHANGED <<daemonVars, fileVars, procs, rx>> ]_vars

\* the insertion of the configured tag a1b2 was dispatched with no tag active
\* while the link was being re-established, and nothing came of it
C27_Witness ==
    /\ last.op = "dispatch"
    /\ last.arg = "ON:a1b2"
    /\ reconnecting
    /\ HasTag(tags, "a1b2")
    /\ active_tag = None
    /\ last.fx = <<>>

\* C28 (Remove of a non-active tag is a no-op): the dispatch of OF:id with
\* id different from active_tag, None included, terminates nothing, publishes
\* nothing and has no other effect; active_tag, the ownership, the process
\* handle and the processes, the load file and the display are unchanged.
C28_RemoveOfOtherTag ==
    [][ DispatchOf("OF:") /\ TagOf(data) # active_tag
        => /\ last'.fx = <<>>
           /\ UNCHANGED <<daemonVars, fileVars, procs, rx>> ]_vars

\* OF:c3d4 was dispatched while a1b2 was active with its process running
C28_Witness ==
    /\ last.op = "dispatch"
    /\ last.arg = "OF:c3d4"
    /\ active_tag = "a1b2"
    /\ OwnsLiveProcess
    /\ last.fx = <<>>

\* C29 (bounded reconnect attempts): in a step of the loop whose connect
\* attempts all fail, every call of reconnect_serial adds one to
\* serial_error_count, which nothing resets, and the attempts made are at
\* most what remains of max_serial_errors; once serial_error_count has
\* reached max_serial_errors no attempt to open the port is made, and each
\* further call gives up.
C29_BoundedReconnects ==
    [][ last'.op \in {"read", "dispatch", "tick"}
        => LET cs == Connects(last'.fx)
               giveups == Count(last'.fx, "giveup")
           IN  /\ (\A i \in DOMAIN cs : cs[i] = "fail")
                  => /\ cs # <<>>
                        => serial_error_count + Len(cs) <= max_serial_errors
                     /\ serial_error_count' =
                            serial_error_count + Len(cs) + giveups
               /\ serial_error_count >= max_serial_errors
                  => /\ cs = <<>>
                     /\ serial_conn' = serial_conn
               /\ giveups > 0 => serial_error_count' > max_serial_errors
               /\ serial_error_count < max_serial_errors /\ cs = <<>>
                  => giveups = 0 ]_vars

\* the sixth consecutive call of reconnect_serial gave up without an attempt
C29_Witness ==
    /\ last.op = "read"
    /\ serial_error_count = max_serial_errors + 1
    /\ Did(last.fx, "giveup")
    /\ ~Did(last.fx, "connect")

\* the recoveries that have been entered and not left after the first i
\* effects of fx
OpenRecoveries(fx, i) ==
    Cardinality({j \in 1..i : fx[j].k = "recover"})
        - Cardinality({j \in 1..i : fx[j].k = "recovered"})

\* the deepest nesting of recoveries in fx
Nesting(fx) ==
    IF fx = <<>> THEN 0
    ELSE LET ds == {OpenRecoveries(fx, i) : i \in DOMAIN fx}
         IN  CHOOSE d \in ds : \A x \in ds : x <= d

\* C30 (bounded nesting): within one call, the recoveries nested one in the
\* other (reconnect -> connect -> recovery -> publish -> reconnect) are at
\* most max_serial_errors, also when the port opens every time and the
\* display writes fail.
C30_BoundedNesting ==
    [][ Nesting(last'.fx) <= max_serial_errors ]_vars

\* the load file holds a non-empty command on its first line and the token
\* TRIGGER on its second
HoldsTriggeredCommand(f) ==
    /\ f.exists
    /\ LET lines == SplitLines(f.content)
       IN  /\ Len(lines) >= 2
           /\ strip(lines[1]) # ""
           /\ lines[2] = "TRIGGER"

\* C31 (load-trigger guard): the rest of an iteration, which holds the poll
\* of the load file, spawns at most once, and only if the file held a
\* non-empty command followed by TRIGGER, a tag is active, and
\* app_was_launched_by_us is false when the poll runs (it was false, or the
\* liveness check of the same iteration has just cleared it).
C31_LoadTriggerGuard ==
    [][ pc = "tick" /\ last'.op = "tick" /\ LaunchAttempts(last'.fx) > 0
        => /\ LaunchAttempts(last'.fx) = 1
           /\ HoldsTriggeredCommand(loadFile)
           /\ Truthy(active_tag)
           /\ ~app_was_launched_by_us \/ Did(last'.fx, "exit_detected") ]_vars

\* a poll has launched the command it found triggered for the active tag
C31_Witness ==
    /\ last.op = "tick"
    /\ Did(last.fx, "trigger")
    /\ Did(last.fx, "launch")
    /\ Truthy(active_tag)
    /\ app_was_launched_by_us

\* the number of TRIGGER lines the load file holds
TriggerLines(f) ==
    IF ~f.exists THEN 0
    ELSE Cardinality({i \in DOMAIN SplitLines(f.content) :
                         SplitLines(f.content)[i] = "TRIGGER"})

\* C32 (a trigger is consumed at most once): a poll that observes TRIGGER,
\* once or several times over, leaves the load file holding the command line
\* alone and spawns at most once; and an iteration that finds no TRIGGER in
\* the load file spawns nothing, so that the invocations made before one
\* poll cause nothing at the next.
C32_TriggerConsumedOnce ==
    [][ /\ PollFoundTrigger
           => /\ loadFile' = ShmFile(Line1(loadFile))
              /\ TriggerLines(loadFile') = 0
              /\ LaunchAttempts(last'.fx) <= 1
        /\ pc = "tick" /\ last'.op = "tick" /\ LaunchAttempts(last'.fx) > 0
           => TriggerLines(loadFile) > 0 /\ TriggerLines(loadFile') = 0
        /\ pc = "tick" /\ last'.op = "tick" /\ TriggerLines(loadFile) = 0
           => LaunchAttempts(last'.fx) = 0 /\ loadFile' = loadFile ]_vars

\* three `--load` invocations were made before one poll, which launched the
\* command once and left it alone in the file
C32_Witness ==
    /\ last.op = "tick"
    /\ used.loads = MaxTriggers
    /\ Count(last.fx, "trigger") = 1
    /\ Count(last.fx, "launch") = 1
    /\ loadFile = ShmFile(EntryGame.command)

\* C33 (load file empty when idle): between two steps of the main loop, when
\* no tag is active the load file holds no command, whatever `--load`
\* invocations have read and rewritten it in the meantime.
C33_LoadFileEmptyWhenIdle ==
    pc \in {"read", "tick"} /\ active_tag = None /\ loadFile.exists
    => strip(loadFile.content) = ""

\* the command line of the load file: its first line
CommandLine(f) ==
    IF f.content = "" THEN "" ELSE SplitLines(f.content)[1]

\* C34 (load mirror): between two steps of the main loop,
\* pending_load_command is None exactly when the command line of the load
\* file is empty, and otherwise equals that command line.
C34_LoadMirror ==
    pc \in {"read", "tick"} /\ loadFile.exists
    => IF CommandLine(loadFile) = ""
       THEN pending_load_command = None
       ELSE pending_load_command = CommandLine(loadFile)

\* the owned process has exited on its own and the daemon has not noticed
OwnsExitedProcess ==
    /\ app_was_launched_by_us
    /\ active_process # NoProcess
    /\ procs[active_process].st # "running"

\* C35 (self-exit detection): while the main loop iterates with no serial
\* event, an owned process that has exited on its own leads to
\* app_was_launched_by_us false and active_process None; and no step of this
\* sends a signal, runs a terminate command, spawns, or changes active_tag,
\* the display or the load file.
C35_SelfExitDetection ==
    /\ OwnsExitedProcess
           ~> (~app_was_launched_by_us /\ active_process = NoProcess)
    /\ [][ /\ \A i \in DOMAIN last'.fx :
                  last'.fx[i].k \in {"exit_detected"}
           /\ UNCHANGED <<active_tag, last_display_state, sharedFile,
                          loadFile>> ]_vars

\* the liveness check has found the exit of the owned process: the handle and
\* the ownership are dropped, the tag is still active
C35_Witness ==
    /\ last.op = "tick"
    /\ Did(last.fx, "exit_detected")
    /\ ~app_was_launched_by_us /\ active_process = NoProcess
    /\ Truthy(active_tag)
    /\ procs[1].st = "reaped"

\* the process launched for the active tag has exited on its own and the
\* liveness check has not run since
ExitUndetected == OwnsExitedProcess
\* the liveness check has found the exit of the process of the active tag
ExitDetected ==
    /\ ~app_was_launched_by_us
    /\ active_process = NoProcess
    /\ \E pid \in DOMAIN procs :
           /\ procs[pid].st = "reaped"
           /\ procs[pid].cmd = GetTag(tagsFile.tags, active_tag).command

\* ON:X is dispatched for the active tag X, configured with a command, with
\* autolaunch enabled
ReinsertOfActive ==
    /\ DispatchOf("ON:")
    /\ Truthy(active_tag) /\ TagOf(data) = active_tag
    /\ tagsFile.state = "valid" /\ HasTag(tagsFile.tags, active_tag)
    /\ strip(GetTag(tagsFile.tags, active_tag).command) # ""
    /\ ~config.disable_autolaunch

\* C36 (relaunch after self-exit): the Insert of the active tag X, after the
\* process launched for X has exited on its own, spawns X's command again,
\* whether the liveness check has already found the exit or not.
C36_RelaunchAfterSelfExit ==
    [][ ReinsertOfActive /\ (ExitUndetected \/ ExitDetected)
        => \E i \in DOMAIN last'.fx :
               /\ last'.fx[i].k \in {"launch", "launch_failed"}
               /\ last'.fx[i].s = GetTag(tagsFile.tags, active_tag).command
      ]_vars

\* the standard termination of the process of the active tag is due: the
\* removal of the active tag, which has no terminate command
StandardRemoval ==
    /\ DispatchOf("OF:")
    /\ Truthy(active_tag) /\ TagOf(data) = active_tag
    /\ strip(GetTag(tags, active_tag).terminate) = ""
    /\ active_process # NoProcess

\* C37 (standard termination order): in every step, a SIGKILL comes
\* directly after a SIGTERM to the same group, and only for a leader that
\* was running and is still alive after the wait: a group signalled with
\* SIGTERM alone is one whose leader has exited, and is reaped. A standard
\* termination whose group no longer exists sends no signal at all. In all
\* three cases the termination completes: the handle and the ownership are
\* cleared.
C37_StandardTerminationOrder ==
    [][ LET fx == last'.fx
        IN  /\ \A i \in DOMAIN fx :
                   fx[i].k = "SIGKILL"
                   => /\ i > 1
                      /\ fx[i - 1].k = "SIGTERM"
                      /\ fx[i - 1].pid = fx[i].pid
                      /\ fx[i].pid \in DOMAIN procs
                         => procs[fx[i].pid].st = "running"
                      /\ procs'[fx[i].pid].st = "exited"
            /\ \A i \in DOMAIN fx :
                   /\ fx[i].k = "SIGTERM"
                   /\ ~(i < Len(fx) /\ fx[i + 1].k = "SIGKILL")
                   => procs'[fx[i].pid].st = "reaped"
            /\ StandardRemoval
               => /\ procs[active_process].st = "reaped"
                     => ~Did(fx, "SIGTERM") /\ ~Did(fx, "SIGKILL")
                  /\ procs[active_process].st # "reaped"
                     => Count(fx, "SIGTERM") = 1
                  /\ active_process' = NoProcess
                  /\ ~app_was_launched_by_us' ]_vars

\* a removal sent SIGTERM and then SIGKILL to a process that did not exit
C37_Witness ==
    /\ last.op = "dispatch"
    /\ StartsWith(last.arg, "OF:")
    /\ Count(last.fx, "SIGTERM") = 1
    /\ Count(last.fx, "SIGKILL") = 1
    /\ active_process = NoProcess

\* C38 (signals only reach the tag's own process): every SIGTERM and SIGKILL
\* of a step goes to the process that the daemon owned when the step began
\* (app_was_launched_by_us true, the handle in active_process), the process
\* of the tag being removed or replaced; a handle left by a termination that
\* has already run is not signalled again.
C38_SignalsOnlyToOwnedProcess ==
    [][ \A i \in DOMAIN last'.fx :
            last'.fx[i].k \in {"SIGTERM", "SIGKILL"}
            => /\ app_was_launched_by_us
               /\ last'.fx[i].pid = active_process ]_vars

\* the step closes the application of the active tag: the removal of the
\* active tag, or the insertion of another, configured tag while a process
\* handle is held
ClosesActive ==
    /\ pc = "dispatch" /\ last'.op = "dispatch"
    /\ Truthy(active_tag)
    /\ \/ StartsWith(data, "OF:") /\ TagOf(data) = active_tag
       \/ /\ StartsWith(data, "ON:") /\ TagOf(data) # active_tag
          /\ tagsFile.state = "valid" /\ HasTag(tagsFile.tags, TagOf(data))
          /\ active_process # NoProcess
\* the terminate command the registry gives for the active tag when the
\* step closes its application (an Insert reloads the registry first)
TerminateOfActive ==
    strip(GetTag(IF StartsWith(data, "ON:") THEN tagsFile.tags ELSE tags,
                 active_tag).terminate)

\* C39 (custom terminate selection): when a step closes the application of
\* the active tag, a terminate command that is run is the non-empty one of
\* that tag, it is run once and no SIGTERM or SIGKILL is sent with it; with
\* an empty terminate command none is run; and when none is run (it is empty
\* or it failed to start) the standard method is used: one SIGTERM to the
\* process held, unless there is no handle or its group is gone.
C39_CustomTerminateSelection ==
    [][ ClosesActive
        => LET fx == last'.fx
           IN  /\ Did(fx, "terminate_cmd")
                  => /\ TerminateOfActive # ""
                     /\ Count(fx, "terminate_cmd") = 1
                     /\ Only(fx, "terminate_cmd")[1].s = TerminateOfActive
                     /\ ~Did(fx, "SIGTERM") /\ ~Did(fx, "SIGKILL")
               /\ TerminateOfActive = "" => ~Did(fx, "terminate_cmd")
               /\ /\ ~Did(fx, "terminate_cmd")
                  /\ active_process # NoProcess
                  /\ procs[active_process].st # "reaped"
                  => /\ Count(fx, "SIGTERM") = 1
                     /\ Only(fx, "SIGTERM")[1].pid = active_process ]_vars

\* the removal of c3d4 ran its terminate command and sent no signal
C39_Witness ==
    /\ last.op = "dispatch"
    /\ last.arg = "OF:c3d4"
    /\ GetTag(tags, "c3d4").terminate = "pkill xterm"
    /\ Count(last.fx, "terminate_cmd") = 1
    /\ ~Did(last.fx, "SIGTERM") /\ ~Did(last.fx, "SIGKILL")

\* the ids of the placeholder entries of a registry
Placeholders(ts) == {ts[i].id : i \in {j \in DOMAIN ts : ts[j].line1 = "new entry"}}
\* the entries of a registry that are not placeholders
Configured(ts) == {ts[i] : i \in {j \in DOMAIN ts : ts[j].line1 # "new entry"}}

\* ON:id is dispatched for an id the registry file does not hold, and the
\* registry file holds at most one placeholder
InsertOfUnknown ==
    /\ DispatchOf("ON:")
    /\ tagsFile.state = "valid"
    /\ ~HasTag(tagsFile.tags, TagOf(data))
    /\ Cardinality(Placeholders(tagsFile.tags)) <= 1

\* C40 (single placeholder): the Insert of an unknown id leaves exactly one
\* placeholder in the registry, keyed by that id: a placeholder that existed
\* is the same entry under the new key, its old key gone; and the entries
\* that are not placeholders are unchanged.
C40_SinglePlaceholder ==
    [][ InsertOfUnknown
        => /\ tagsFile'.state = "valid"
           /\ Placeholders(tagsFile'.tags) = {TagOf(data)}
           /\ Configured(tagsFile'.tags) = Configured(tagsFile.tags)
           /\ \A old \in Placeholders(tagsFile.tags) :
                  GetTag(tagsFile'.tags, TagOf(data))
                      = [GetTag(tagsFile.tags, old) EXCEPT !.id = TagOf(data)]
           /\ tags' = tagsFile'.tags ]_vars

============================================================================
